---- MODULE Spec2Model ----
(***************************************************************************)
(* A model of the growthOS knowledge pipeline: the similarity ranker SSC,  *)
(* the recommendation generator LLMUpdater with its rule-based fallback,   *)
(* the Supabase store adapter and the service layer on top of them.        *)
(*                                                                         *)
(* Texts are TLA+ strings.  Similarity scores and thresholds are integers  *)
(* in hundredths (0.8 is 80).  Embeddings are integer vectors <<x, y>>.    *)
(***************************************************************************)
EXTENDS Integers, Sequences, FiniteSets, TLC

VARIABLES
    store,    \* the knowledge_items table, in the order select('*') returns it
    clock,    \* datetime.utcnow(), as a logical time
    nextId,   \* the next identifier the store assigns on insert
    call,     \* the call in progress or just completed, with its result
    procs,    \* concurrent add_knowledge_item calls: their position and locals
    lastAdd,  \* history: per category, the item of the latest successful add
    files,    \* the data/knowledge folder of the file store: file name -> item
    offered   \* the ProcessTextResponse the client holds, with its request

vars == <<store, clock, nextId, call, procs, lastAdd, files, offered>>

(***************************************************************************)
(* Bounds of the model.                                                    *)
(***************************************************************************)
MaxItems == 3      \* records in the store
MaxRecs == 4       \* elements of a JSON array answered by the LLM
MaxClock == 4      \* logical time stops here
MaxProcs == 2      \* concurrent add_knowledge_item calls
MaxPermuted == 3   \* tag sets up to this size are iterated in every order

(***************************************************************************)
(* Python strings.                                                         *)
(***************************************************************************)
Idle == [op |-> "idle"]

None == [k |-> "none"]

Range(q) == {q[i] : i \in DOMAIN q}

\* keyword in text: Python's substring test on str
Contains(text, kw) ==
    \E i \in 1..(Len(text) - Len(kw) + 1) : SubSeq(text, i, i + Len(kw) - 1) = kw

UpperLetters == "ABCDEFGHIJKLMNOPQRSTUVWXYZ"

LowerLetters == "abcdefghijklmnopqrstuvwxyz"

LowerChar(c) ==
    IF \E i \in 1..Len(UpperLetters) : SubSeq(UpperLetters, i, i) = c
    THEN LET i == CHOOSE j \in 1..Len(UpperLetters) : SubSeq(UpperLetters, j, j) = c
         IN  SubSeq(LowerLetters, i, i)
    ELSE c

RECURSIVE Lower(_)
\* str.lower(), character by character (split in halves to keep the recursion shallow)
Lower(s) ==
    IF Len(s) = 0 THEN ""
    ELSE IF Len(s) = 1 THEN LowerChar(s)
    ELSE LET h == Len(s) \div 2
         IN  Lower(SubSeq(s, 1, h)) \o Lower(SubSeq(s, h + 1, Len(s)))

IsSpace(c) == c \in {" ", "\n", "\t", "\r"}

RECURSIVE LStrip(_)
LStrip(s) ==
    IF Len(s) > 0 /\ IsSpace(SubSeq(s, 1, 1)) THEN LStrip(SubSeq(s, 2, Len(s))) ELSE s

RECURSIVE RStrip(_)
RStrip(s) ==
    IF Len(s) > 0 /\ IsSpace(SubSeq(s, Len(s), Len(s)))
    THEN RStrip(SubSeq(s, 1, Len(s) - 1)) ELSE s

\* str.strip()
Strip(s) == RStrip(LStrip(s))

\* seq[:n]
Take(q, n) == SubSeq(q, 1, IF Len(q) < n THEN Len(q) ELSE n)

(***************************************************************************)
(* Python values that cross the JSON boundary (json.loads of the LLM's     *)
(* answer), tagged with their type.                                        *)
(***************************************************************************)
JNull == [t |-> "null"]

JNum(n) == [t |-> "num", n |-> n]

JStr(s) == [t |-> "str", s |-> s]

JArr(q) == [t |-> "arr", a |-> q]

JObj(f) == [t |-> "obj", o |-> f]

\* Results of calls that may raise
Ok(v) == [ok |-> TRUE, v |-> v]

Raised(e) == [ok |-> FALSE, exc |-> e]

\* a store row's tags column: a list, SQL NULL, or no such key in the dict
TagsList(q) == [k |-> "list", v |-> q]

TagsNull == [k |-> "null", v |-> <<>>]

TagsAbsent == [k |-> "absent", v |-> <<>>]

(***************************************************************************)
(* generate_fallback_recommendations (src/src/core/llm_updater.py).         *)
(***************************************************************************)
tag_keywords == <<
    [tag |-> "ai", keywords |-> <<"artificial intelligence", "ai", "machine learning", "ml", "neural", "algorithm">>],
    [tag |-> "business", keywords |-> <<"business", "strategy", "marketing", "finance", "revenue", "profit">>],
    [tag |-> "technology", keywords |-> <<"technology", "tech", "software", "programming", "coding", "development">>],
    [tag |-> "health", keywords |-> <<"health", "medical", "wellness", "fitness", "exercise", "nutrition">>],
    [tag |-> "education", keywords |-> <<"education", "learning", "study", "teaching", "knowledge", "training">>],
    [tag |-> "science", keywords |-> <<"science", "research", "experiment", "hypothesis", "theory", "analysis">>],
    [tag |-> "psychology", keywords |-> <<"psychology", "behavior", "cognitive", "mental", "emotion", "mind">>],
    [tag |-> "economics", keywords |-> <<"economics", "economic", "market", "economy", "financial", "investment">>]
>>

DetailedLen == 500

TagLimit == 5

\* any(keyword in text_lower for keyword in keywords)
AnyKeyword(text_lower, keywords) ==
    \E i \in DOMAIN keywords : Contains(text_lower, keywords[i])

RECURSIVE MatchedTags(_, _)
\* the loop over tag_keywords.items(), from entry i on, in table order
MatchedTags(text_lower, i) ==
    IF i > Len(tag_keywords) THEN <<>>
    ELSE (IF AnyKeyword(text_lower, tag_keywords[i].keywords)
          THEN <<tag_keywords[i].tag>> ELSE <<>>)
         \o MatchedTags(text_lower, i + 1)

\* generate_basic_tags without the cut of line 66
generate_basic_tags_NoCut(text) ==
    LET tags == MatchedTags(Lower(text), 1)
        generic == (IF Len(text) > DetailedLen THEN <<"detailed">> ELSE <<>>)
                   \o <<"knowledge">>
    IN  IF tags = <<>> THEN generic ELSE tags

generate_basic_tags(text) ==
    LET tags == MatchedTags(Lower(text), 1)
        generic == (IF Len(text) > DetailedLen THEN <<"detailed">> ELSE <<>>)
                   \o <<"knowledge">>
    IN  Take(IF tags = <<>> THEN generic ELSE tags, TagLimit)

\* One recommendation dict
Rec(change, updated_text, category, tags) ==
    [change |-> change, updated_text |-> updated_text, category |-> category,
     tags |-> tags]

\* existing_item.get('tags', []) + ['updated'] + ...: list + list, or TypeError on None
ExistingTagsPlus(existing_item, rest) ==
    IF existing_item.tags.k = "null" THEN Raised("TypeError")
    ELSE Ok(existing_item.tags.v \o rest)

\* returns Ok(<<rec1, rec2, rec3>>), or Raised when building a dict raised
generate_fallback_recommendations(input_text, existing_item) ==
    LET basic == generate_basic_tags(input_text)
        rec3 == Rec(JStr("We recommend creating a completely new category to keep this information separate and distinct."),
                    JStr(input_text), JStr("New Category"),
                    basic \o <<"new", "distinct">>)
    IN  IF existing_item # None
        THEN LET merged_content == existing_item.content \o "\n\n[ADDITION]: " \o input_text
                 tags1 == ExistingTagsPlus(existing_item, <<"updated">> \o basic)
             IN  IF ~tags1.ok THEN tags1
                 ELSE Ok(<<
                     Rec(JStr("We merged your new information with the existing '"
                              \o existing_item.category
                              \o "' category by appending it to the current content."),
                         JStr(merged_content), JStr(existing_item.category), tags1.v),
                     Rec(JStr("We updated the '" \o existing_item.category
                              \o "' category by replacing the content with your new, more comprehensive information."),
                         JStr(input_text), JStr(existing_item.category),
                         basic \o <<"updated">>),
                     rec3 >>)
        ELSE Ok(<<
                 Rec(JStr("We created a new category since no similar content was found in your database."),
                     JStr(input_text), JStr("New Knowledge Category"),
                     basic \o <<"new">>),
                 Rec(JStr("We created a new category with enhanced formatting for better readability."),
                     JStr("# Overview\n" \o input_text), JStr("New Knowledge Category"),
                     basic \o <<"formatted", "new">>),
                 rec3 >>)


(***************************************************************************)
(* LLMUpdater (src/src/core/llm_updater.py): the primary path on the       *)
(* parsed answer, with Python's semantics for len, in, [] and str on each  *)
(* JSON type.                                                              *)
(***************************************************************************)
Digits == "0123456789"

RECURSIVE IntToStr(_)
IntToStr(n) ==
    IF n < 10 THEN SubSeq(Digits, n + 1, n + 1)
    ELSE IntToStr(n \div 10) \o SubSeq(Digits, (n % 10) + 1, (n % 10) + 1)

\* str(x)
PyStr(v) ==
    CASE v.t = "str" -> v.s
      [] v.t = "num" -> IntToStr(v.n)
      [] v.t = "null" -> "None"
      [] v.t = "arr" -> "[...]"
      [] v.t = "obj" -> "{...}"

\* bool(x)
Truthy(v) ==
    CASE v.t = "str" -> v.s # ""
      [] v.t = "num" -> v.n # 0
      [] v.t = "null" -> FALSE
      [] v.t = "arr" -> v.a # <<>>
      [] v.t = "obj" -> DOMAIN v.o # {}

RECURSIVE SetToSeq(_)
SetToSeq(S) ==
    IF S = {} THEN <<>> ELSE LET x == CHOOSE y \in S : TRUE IN <<x>> \o SetToSeq(S \ {x})

\* what a for loop over x yields: list elements, dict keys, the characters of a str
Elements(v) ==
    CASE v.t = "arr" -> v.a
      [] v.t = "obj" -> [i \in 1..Cardinality(DOMAIN v.o) |-> JStr(SetToSeq(DOMAIN v.o)[i])]
      [] v.t = "str" -> [i \in 1..Len(v.s) |-> JStr(SubSeq(v.s, i, i))]

\* len(x), for the types that have one
PyLen(v) ==
    CASE v.t = "arr" -> Len(v.a)
      [] v.t = "obj" -> Cardinality(DOMAIN v.o)
      [] v.t = "str" -> Len(v.s)

HasLen(v) == v.t \in {"arr", "obj", "str"}

\* key in rec: "yes", "no", or "TypeError" when rec is not a container
KeyIn(rec, key) ==
    CASE rec.t = "obj" -> IF key \in DOMAIN rec.o THEN "yes" ELSE "no"
      [] rec.t = "arr" -> IF \E i \in DOMAIN rec.a : rec.a[i] = JStr(key) THEN "yes" ELSE "no"
      [] rec.t = "str" -> IF Contains(rec.s, key) THEN "yes" ELSE "no"
      [] OTHER -> "TypeError"

required_keys == <<"change", "updated_text", "category", "tags">>

DefaultTags == <<"knowledge", "general">>

\* CleanTags without the cut of line 254
CleanTags_NoCut(tags) ==
    LET lst == IF tags.t = "arr" THEN tags.a
               ELSE IF Truthy(tags) THEN <<tags>> ELSE <<>>
        NotBlank(x) == Strip(PyStr(x)) # ""
        kept == SelectSeq(lst, NotBlank)
        cleaned == [i \in 1..Len(kept) |-> Lower(Strip(PyStr(kept[i])))]
    IN  IF cleaned = <<>> THEN DefaultTags ELSE cleaned

\* lines 247-258: coerce to a list, strip and lower-case, drop blanks, cut, default
CleanTags(tags) ==
    LET lst == IF tags.t = "arr" THEN tags.a
               ELSE IF Truthy(tags) THEN <<tags>> ELSE <<>>
        NotBlank(x) == Strip(PyStr(x)) # ""
        kept == SelectSeq(lst, NotBlank)
        cleaned == [i \in 1..Len(kept) |-> Lower(Strip(PyStr(kept[i])))]
        cut == Take(cleaned, TagLimit)
    IN  IF cut = <<>> THEN DefaultTags ELSE cut

\* the required-key check of one element, then its clean-up (rec['tags'] needs a dict)
CleanRec(rec) ==
    IF \E i \in DOMAIN required_keys : KeyIn(rec, required_keys[i]) = "TypeError"
    THEN Raised("TypeError")
    ELSE IF \E i \in DOMAIN required_keys : KeyIn(rec, required_keys[i]) = "no"
    THEN Raised("ValueError")
    ELSE IF rec.t # "obj" THEN Raised("TypeError")
    ELSE Ok([k \in DOMAIN rec.o |-> IF k = "tags" THEN CleanTags(rec.o[k]) ELSE rec.o[k]])

RECURSIVE CleanRecs(_, _)
\* the loop "for i, rec in enumerate(recommendations)" from element i on
CleanRecs(elems, i) ==
    IF i > Len(elems) THEN Ok(<<>>)
    ELSE LET r == CleanRec(elems[i])
         IN  IF ~r.ok THEN r
             ELSE LET rest == CleanRecs(elems, i + 1)
                  IN  IF ~rest.ok THEN rest ELSE Ok(<<r.v>> \o rest.v)

NumRecs == 3

\* ParseAndValidate without the check of the element count
ParseAndValidate_NoCount(outcome) ==
    IF outcome.k = "badjson" THEN Raised("JSONDecodeError")
    ELSE IF ~HasLen(outcome.v) THEN Raised("TypeError")
    ELSE CleanRecs(Elements(outcome.v), 1)

\* json.loads(response) and the validation of its value (lines 233-261)
ParseAndValidate(outcome) ==
    IF outcome.k = "badjson" THEN Raised("JSONDecodeError")
    ELSE IF ~HasLen(outcome.v) THEN Raised("TypeError")
    ELSE IF PyLen(outcome.v) # NumRecs THEN Raised("ValueError")
    ELSE CleanRecs(Elements(outcome.v), 1)

\* call_azure_openai_llm raised: missing credentials, or the client's error
LLMCallFails(outcome) == outcome.k \in {"nocreds", "transport"}

\* the body of the try block (lines 226-261)
PrimaryPath(llm_type, outcome) ==
    IF Lower(llm_type) # "azure_openai" THEN Raised("ValueError")
    ELSE IF LLMCallFails(outcome) THEN Raised(outcome.k)
    ELSE ParseAndValidate(outcome)

\* the result of one call: the list returned, or raised to the caller
LLMUpdater(input_text, existing_item, llm_type, outcome) ==
    LET p == PrimaryPath(llm_type, outcome)
        f == generate_fallback_recommendations(input_text, existing_item)
    IN  IF p.ok THEN [raised |-> FALSE, recs |-> p.v, path |-> "primary"]
        ELSE IF f.ok THEN [raised |-> FALSE, recs |-> f.v, path |-> "fallback"]
        ELSE [raised |-> TRUE, recs |-> <<>>, path |-> "fallback"]

(***************************************************************************)
(* Store rows and the inputs the calls are tried on.                       *)
(***************************************************************************)
Row(id, category, content, tags, embedding, created_at, last_updated) ==
    [id |-> id, category |-> category, content |-> content, tags |-> tags,
     embedding |-> embedding, created_at |-> created_at, last_updated |-> last_updated]

\* knowledge_item.copy() with best_match['similarity_score'] = float(similarity)
WithScore(row, score) ==
    [f \in DOMAIN row \cup {"similarity_score"} |->
        IF f = "similarity_score" THEN score ELSE row[f]]

RECURSIVE Repeat(_, _)
Repeat(s, n) ==
    IF n = 0 THEN ""
    ELSE IF n % 2 = 1 THEN s \o Repeat(s, n - 1)
    ELSE LET h == Repeat(s, n \div 2) IN h \o h

LongText == Repeat(".", DetailedLen + 1)

InputTexts ==
    {"Sleep improves memory", "AI marketing",
     "Machine Learning for health marketing tech",
     "AI Business Tech Health Study Science Mind", LongText}

SampleMatches ==
    {WithScore(Row(1, "Sleep", "Sleep helps.", TagsList(<<"updated">>), <<4, 3>>, 1, 1), 96),
     WithScore(Row(2, "New Category", "AI marketing", TagsList(<<"new">>), <<3, 4>>, 1, 2), 100),
     WithScore(Row(3, "Notes", "Old notes", TagsNull, <<5, 0>>, 1, 1), 80),
     WithScore(Row(4, "Notes", "Old notes", TagsAbsent, <<5, 0>>, 1, 1), 80)}

BestMatches == {None} \cup SampleMatches

LLMTypes == {"azure_openai", "Azure_OpenAI", "openai"}

GoodRec(category, tags) ==
    JObj([change |-> JStr("Merged."), updated_text |-> JStr("Sleep helps memory."),
          category |-> category, tags |-> tags])

\* dicts an answered array is made of
ElemSamples ==
    {GoodRec(JStr("Sleep"), JArr(<<JStr(" Deep-Work "), JStr("AI"), JStr(""), JNum(42)>>)),
     GoodRec(JStr("Memory"), JStr("Memory ")),
     GoodRec(JNull,
             JArr(<<JStr("a"), JStr("b"), JStr("c"), JStr("d"), JStr("e"), JStr("f")>>)),
     GoodRec(JStr("Sleep"), JArr(<<JStr("  "), JNum(0)>>)),
     JObj([change |-> JStr("Merged."), updated_text |-> JStr("x"), category |-> JStr("Sleep")])}

\* elements that are no dict
OddElems ==
    {JStr("change updated_text category tags"),
     JArr(<<JStr("change"), JStr("updated_text"), JStr("category"), JStr("tags")>>),
     JNum(7), JNull}

PlainRec == GoodRec(JStr("Sleep"), JArr(<<JStr("sleep")>>))

\* arrays of another length, arrays holding a non-dict, and answers that are no array
OtherAnswers ==
    {JArr([i \in 1..n |-> PlainRec]) : n \in (0..MaxRecs) \ {NumRecs}}
    \cup {JArr(<<w, PlainRec, PlainRec>>) : w \in OddElems}
    \cup {JArr(<<PlainRec, PlainRec, w>>) : w \in OddElems}
    \cup {JNull, JNum(3), JStr("abc"),
          JObj([a |-> JNull, b |-> JNull, c |-> JNull]),
          JObj([change |-> JNull, updated_text |-> JNull, tags |-> JNull])}

\* answers whose tags are a bare scalar: empty ones and non-empty ones
ScalarTagAnswers ==
    {JArr(<<GoodRec(JStr("Sleep"), g), PlainRec, PlainRec>>) :
        g \in {JNull, JNum(0), JStr(""), JStr("  "), JNum(42), JStr(" Deep Work ")}}

LLMAnswers ==
    {JArr(<<a, b, c>>) : a \in ElemSamples, b \in ElemSamples, c \in ElemSamples}
    \cup OtherAnswers \cup ScalarTagAnswers

NotCalled == [k |-> "notcalled", v |-> JNull]

\* every behaviour of the chat-completion provider
LLMOutcomes ==
    {[k |-> "nocreds", v |-> JNull], [k |-> "transport", v |-> JNull],
     [k |-> "badjson", v |-> JNull]}
    \cup {[k |-> "json", v |-> a] : a \in LLMAnswers}

\* the provider answers only when LLMUpdater calls it
OutcomesFor(llm_type, outcomes) ==
    IF Lower(llm_type) = "azure_openai" THEN outcomes ELSE {NotCalled}

(***************************************************************************)
(* Calls of the recommendation generator on every input.                   *)
(***************************************************************************)
LLMUpdaterCall ==
    /\ call = Idle
    /\ \E input_text \in InputTexts, existing_item \in BestMatches,
          llm_type \in LLMTypes :
       \E outcome \in OutcomesFor(llm_type, LLMOutcomes) :
          call' = [op |-> "LLMUpdater", input_text |-> input_text,
                   existing_item |-> existing_item, llm_type |-> llm_type,
                   outcome |-> outcome,
                   result |-> LLMUpdater(input_text, existing_item, llm_type, outcome)]
    /\ UNCHANGED <<store, clock, nextId, procs, lastAdd, files, offered>>

FallbackCall ==
    /\ call = Idle
    /\ \E input_text \in InputTexts, existing_item \in BestMatches :
          call' = [op |-> "fallback", input_text |-> input_text,
                   existing_item |-> existing_item,
                   basic_tags |-> generate_basic_tags(input_text),
                   result |-> generate_fallback_recommendations(input_text, existing_item)]
    /\ UNCHANGED <<store, clock, nextId, procs, lastAdd, files, offered>>

\* the caller moves on to its next call
Return ==
    /\ call # Idle
    /\ call' = Idle
    /\ UNCHANGED <<store, clock, nextId, procs, lastAdd, files, offered>>

InitLLM ==
    /\ store = <<>>
    /\ clock = 1
    /\ nextId = 1
    /\ call = Idle
    /\ procs = <<>>
    /\ lastAdd = <<>>
    /\ files = <<>>
    /\ offered = None

NextLLM == LLMUpdaterCall \/ FallbackCall \/ Return

SpecLLM == InitLLM /\ [][NextLLM]_vars

(***************************************************************************)
(* get_embedding and SSC (src/src/core/embeddings.py, similarity.py).      *)
(***************************************************************************)
Dot(a, b) == a[1] * b[1] + a[2] * b[2]

\* the Euclidean norm; the vectors of the model have integer norms
Norm(a) == CHOOSE r \in 0..(Dot(a, a)) : r * r = Dot(a, a)

\* sklearn's cosine_similarity in hundredths; a zero vector gives 0
cosine_similarity(a, b) ==
    IF Norm(a) = 0 \/ Norm(b) = 0 THEN 0
    ELSE (Dot(a, b) * 100) \div (Norm(a) * Norm(b))

Vectors == {<<5, 0>>, <<4, 3>>, <<0, 5>>, <<-3, 4>>}

\* what one get_embedding call can do: return a vector, or raise
EmbOutcomes == {Ok(v) : v \in Vectors} \cup {Raised("EmbeddingError")}

\* 'embedding' in knowledge_item and knowledge_item['embedding']
HasEmbedding(knowledge_item) == knowledge_item.embedding # <<>>

\* the items for which the loop calls get_embedding(content)
NeedsEmbedding(knowledge_item) ==
    ~HasEmbedding(knowledge_item) /\ knowledge_item.content # ""

\* locals whose running maximum starts below every similarity
SSCStart_NoFloor ==
    [raised |-> FALSE, best_match |-> None, highest_similarity |-> -101, k |-> 1,
     calls |-> <<>>, loads |-> 0, sims |-> <<>>, items |-> <<>>]

\* SSC's locals before the loop (lines 25-26); k is the next get_embedding call,
\* calls the texts embedded so far, loads the load_all_knowledge calls made,
\* items the dicts of existing_knowledge as the iterations left them
SSCStart ==
    [raised |-> FALSE, best_match |-> None, highest_similarity |-> 0, k |-> 1,
     calls |-> <<>>, loads |-> 0, sims |-> <<>>, items |-> <<>>]

\* line 45 without the comparison against the running maximum
IsNewBest_NoMax(similarity, highest_similarity, threshold) ==
    similarity > threshold

\* line 45 with >= against the running maximum
IsNewBest_OrEqual(similarity, highest_similarity, threshold) ==
    similarity >= highest_similarity /\ similarity > threshold

\* the comparison of line 45
IsNewBest(similarity, highest_similarity, threshold) ==
    similarity > highest_similarity /\ similarity > threshold

\* an iteration that writes the score into the loaded dict itself, without
\* the copy of line 47
SSCStep_NoCopy(st, emb1, threshold, knowledge_item, oracle) ==
    IF HasEmbedding(knowledge_item) \/ knowledge_item.content # ""
    THEN LET fetched == ~HasEmbedding(knowledge_item)
             resp == IF fetched THEN oracle[st.k] ELSE Ok(knowledge_item.embedding)
         IN  IF ~resp.ok
             THEN [st EXCEPT !.raised = TRUE, !.best_match = None,
                             !.calls = Append(@, knowledge_item.content),
                             !.items = Append(@, knowledge_item)]
             ELSE LET similarity == cosine_similarity(emb1, resp.v)
                      seen == [st EXCEPT
                                 !.k = IF fetched THEN @ + 1 ELSE @,
                                 !.calls = IF fetched
                                           THEN Append(@, knowledge_item.content) ELSE @,
                                 !.sims = Append(@, Ok(similarity)),
                                 !.items = Append(@, knowledge_item)]
                  IN  IF IsNewBest(similarity, st.highest_similarity, threshold)
                      THEN [seen EXCEPT !.highest_similarity = similarity,
                                        !.best_match = WithScore(knowledge_item, similarity),
                                        !.items = Append(st.items,
                                                         WithScore(knowledge_item, similarity))]
                      ELSE seen
    ELSE [st EXCEPT !.sims = Append(@, None), !.items = Append(@, knowledge_item)]

\* one iteration of the loop (lines 31-48) on knowledge_item; the score goes
\* on a copy (line 47), so the dict of the loaded list stays as it was
SSCStep(st, emb1, threshold, knowledge_item, oracle) ==
    IF HasEmbedding(knowledge_item) \/ knowledge_item.content # ""
    THEN LET fetched == ~HasEmbedding(knowledge_item)
             resp == IF fetched THEN oracle[st.k] ELSE Ok(knowledge_item.embedding)
         IN  IF ~resp.ok
             THEN [st EXCEPT !.raised = TRUE, !.best_match = None,
                             !.calls = Append(@, knowledge_item.content),
                             !.items = Append(@, knowledge_item)]
             ELSE LET similarity == cosine_similarity(emb1, resp.v)
                      seen == [st EXCEPT
                                 !.k = IF fetched THEN @ + 1 ELSE @,
                                 !.calls = IF fetched
                                           THEN Append(@, knowledge_item.content) ELSE @,
                                 !.sims = Append(@, Ok(similarity)),
                                 !.items = Append(@, knowledge_item)]
                  IN  IF IsNewBest(similarity, st.highest_similarity, threshold)
                      THEN [seen EXCEPT !.highest_similarity = similarity,
                                        !.best_match = WithScore(knowledge_item, similarity)]
                      ELSE seen
    ELSE [st EXCEPT !.sims = Append(@, None), !.items = Append(@, knowledge_item)]

RECURSIVE SSCLoop(_, _, _, _, _, _)
\* the loop over existing_knowledge from item i on; an exception ends it
SSCLoop(st, emb1, threshold, existing_knowledge, oracle, i) ==
    IF st.raised \/ i > Len(existing_knowledge) THEN st
    ELSE SSCLoop(SSCStep(st, emb1, threshold, existing_knowledge[i], oracle),
                 emb1, threshold, existing_knowledge, oracle, i + 1)

\* an SSC that swallows the failures of the embedding provider and the store
SSC_NoRaise(text, threshold, loaded, oracle) ==
    IF ~oracle[1].ok THEN [SSCStart EXCEPT !.calls = <<text>>]
    ELSE IF ~loaded.ok THEN [SSCStart EXCEPT !.calls = <<text>>, !.loads = 1]
    ELSE [SSCLoop([SSCStart EXCEPT !.k = 2, !.calls = <<text>>, !.loads = 1],
                  oracle[1].v, threshold, loaded.v, oracle, 1)
            EXCEPT !.raised = FALSE]

\* an SSC that embeds the query text twice
SSC_QueryTwice(text, threshold, loaded, oracle) ==
    IF ~oracle[1].ok
    THEN [SSCStart EXCEPT !.raised = TRUE, !.calls = <<text, text>>]
    ELSE IF ~loaded.ok
    THEN [SSCStart EXCEPT !.raised = TRUE, !.calls = <<text, text>>, !.loads = 1]
    ELSE SSCLoop([SSCStart EXCEPT !.k = 2, !.calls = <<text, text>>, !.loads = 1],
                 oracle[1].v, threshold, loaded.v, oracle, 1)

\* SSC(text, threshold): oracle[1] answers get_embedding(text), the following
\* entries the get_embedding(content) calls, in order; loaded is what
\* load_all_knowledge() did: Ok(rows), or Raised
SSC(text, threshold, loaded, oracle) ==
    IF ~oracle[1].ok
    THEN [SSCStart EXCEPT !.raised = TRUE, !.calls = <<text>>]
    ELSE IF ~loaded.ok
    THEN [SSCStart EXCEPT !.raised = TRUE, !.calls = <<text>>, !.loads = 1]
    ELSE SSCLoop([SSCStart EXCEPT !.k = 2, !.calls = <<text>>, !.loads = 1],
                 oracle[1].v, threshold, loaded.v, oracle, 1)

\* load_all_knowledge(): the rows, or the store's error
LoadOutcomes(rows) == {Ok(rows), Raised("StoreError")}

\* how many get_embedding calls a scan of the rows can make
EmbeddingCalls(rows) == 1 + Cardinality({i \in DOMAIN rows : NeedsEmbedding(rows[i])})

Oracles(rows) == [1..EmbeddingCalls(rows) -> EmbOutcomes]

CategoryNames ==
    <<"Sleep", "Notes", "New Category", "New Knowledge Category", "Memory", "Focus">>

\* thresholds in hundredths: inside [0, 1], and outside it
Thresholds == {-50, 0, 60, 80, 100, 120}

\* the rows a scan can meet at position i of the table
RowsAt(i) ==
    {Row(i, CategoryNames[i], c, TagsList(<<"new">>), e, 1, 1) :
        c \in {"Old notes"}, e \in Vectors \cup {<<>>}}
    \cup {Row(i, CategoryNames[i], "", TagsList(<<"new">>), <<>>, 1, 1)}

RECURSIVE Tables(_)
\* every table of n rows
Tables(n) ==
    IF n = 0 THEN {<<>>}
    ELSE {Append(t, r) : t \in Tables(n - 1), r \in RowsAt(n)}

RankStores == UNION {Tables(n) : n \in 0..MaxItems}

SSCCall ==
    /\ call = Idle
    /\ \E text \in {"Sleep improves memory"}, threshold \in Thresholds,
          oracle \in Oracles(store), loaded \in LoadOutcomes(store) :
          call' = [op |-> "SSC", text |-> text, threshold |-> threshold,
                   result |-> SSC(text, threshold, loaded, oracle)]
    /\ UNCHANGED <<store, clock, nextId, procs, lastAdd, files, offered>>

InitRank ==
    /\ store \in RankStores
    /\ clock = 1
    /\ nextId = Len(store) + 1
    /\ call = Idle
    /\ procs = <<>>
    /\ lastAdd = <<>>
    /\ files = <<>>
    /\ offered = None

NextRank == SSCCall \/ Return

SpecRank == InitRank /\ [][NextRank]_vars

(***************************************************************************)
(* The store adapter (src/src/database/supabase_manager.py).  Each request  *)
(* to the store either takes effect and answers, or raises and changes     *)
(* nothing.                                                                *)
(***************************************************************************)
\* select('*').eq('category', category)
SelectByCategory(rows, category) ==
    LET Matches(r) == r.category = category IN SelectSeq(rows, Matches)

\* result.data[0] if result.data else None
get_knowledge_by_category(rows, category) ==
    IF SelectByCategory(rows, category) # <<>>
    THEN SelectByCategory(rows, category)[1] ELSE None

\* knowledge_item.get('tags', [])
TagsOrEmpty(tags) == IF tags.k = "absent" THEN TagsList(<<>>) ELSE tags

\* the dict "data" of lines 36-43
PrepareData(knowledge_item, now) ==
    [category |-> knowledge_item.category, content |-> knowledge_item.content,
     tags |-> TagsOrEmpty(knowledge_item.tags), embedding |-> knowledge_item.embedding,
     created_at |-> now, last_updated |-> now]

\* update(data).eq('category', ...): every column of data, on every matching row
UpdateRow(row, data) ==
    [row EXCEPT !.content = data.content, !.tags = data.tags,
                !.embedding = data.embedding, !.created_at = data.created_at,
                !.last_updated = data.last_updated]

UpdateByCategory(rows, data) ==
    [i \in DOMAIN rows |->
        IF rows[i].category = data.category THEN UpdateRow(rows[i], data) ELSE rows[i]]

\* insert(data): the store assigns the identifier
InsertRow(rows, data, id) ==
    Append(rows, Row(id, data.category, data.content, data.tags, data.embedding,
                     data.created_at, data.last_updated))

\* a write that never looks at the existence read
WriteData_AlwaysInsert(rows, data, existing, id) == InsertRow(rows, data, id)

\* the rows after the write of lines 48-55, given what the existence read saw
WriteData(rows, data, existing, id) ==
    IF existing # None THEN UpdateByCategory(rows, data) ELSE InsertRow(rows, data, id)

\* add_knowledge_item: fault names the store request that raises, if any.
\* Yields the rows and identifier counter afterwards, the returned record and
\* the store requests made.
add_knowledge_item(rows, id, now, knowledge_item, fault) ==
    LET data == PrepareData(knowledge_item, now)
        existing == get_knowledge_by_category(rows, data.category)
        written == WriteData(rows, data, existing, id)
        verb == IF existing # None THEN "update" ELSE "insert"
    IN  IF fault = "get"
        THEN [raised |-> TRUE, rows |-> rows, nextId |-> id, record |-> None,
              requests |-> <<"select">>]
        ELSE IF fault = "write"
        THEN [raised |-> TRUE, rows |-> rows, nextId |-> id, record |-> None,
              requests |-> <<"select", verb>>]
        ELSE [raised |-> FALSE, rows |-> written,
              nextId |-> IF existing # None THEN id ELSE id + 1,
              record |-> get_knowledge_by_category(written, data.category),
              requests |-> <<"select", verb>>]

\* a delete that reports True whatever it removed
delete_knowledge_item_AlwaysTrue(rows, category, fault) ==
    LET Others(r) == r.category # category
    IN  IF fault = "delete"
        THEN [raised |-> TRUE, rows |-> rows, deleted |-> FALSE]
        ELSE [raised |-> FALSE, rows |-> SelectSeq(rows, Others), deleted |-> TRUE]

\* delete().eq('category', category): True exactly when rows were deleted
delete_knowledge_item(rows, category, fault) ==
    LET Others(r) == r.category # category
    IN  IF fault = "delete"
        THEN [raised |-> TRUE, rows |-> rows, deleted |-> FALSE]
        ELSE [raised |-> FALSE, rows |-> SelectSeq(rows, Others),
              deleted |-> SelectByCategory(rows, category) # <<>>]

(***************************************************************************)
(* KnowledgeService.apply_recommendation (src/src/api/service.py).         *)
(***************************************************************************)
EmbeddingCall(text) == [svc |-> "embedding", arg |-> text]

StoreCall(request) == [svc |-> "store", arg |-> request]

LLMCall(text) == [svc |-> "llm", arg |-> text]

\* the external calls one SSC run made, in order: the query embedding, the
\* load of the table, the embeddings of items that had none
SSCExternal(ssc) ==
    <<EmbeddingCall(ssc.calls[1])>>
    \o (IF ssc.loads = 1 THEN <<StoreCall("select_all")>> ELSE <<>>)
    \o [i \in 1..(Len(ssc.calls) - 1) |-> EmbeddingCall(ssc.calls[i + 1])]

\* LLMExternal of a generator that asks the provider again after a transport
\* failure
LLMExternal_Retry(input_text, llm_type, outcome) ==
    IF Lower(llm_type) = "azure_openai" /\ outcome.k # "nocreds"
    THEN (IF outcome.k = "transport" THEN <<LLMCall(input_text), LLMCall(input_text)>>
          ELSE <<LLMCall(input_text)>>)
    ELSE <<>>

\* the chat-completion request LLMUpdater sent, if it got that far
LLMExternal(input_text, llm_type, outcome) ==
    IF Lower(llm_type) = "azure_openai" /\ outcome.k # "nocreds"
    THEN <<LLMCall(input_text)>> ELSE <<>>

\* the text a JSON scalar becomes in a text column of the store
StoredText(v) == PyStr(v)

\* pydantic's check of a "str" field: a str passes, None never does, and a
\* number passes only where the installed pydantic coerces it
ValidatesAsStr(v, coerce) == v.t = "str" \/ (v.t = "num" /\ coerce)

\* the except branch of lines 114-121
FailedResponse ==
    [success |-> FALSE, category |-> "", record_id |-> None,
     action_taken |-> "Failed to apply recommendation"]

\* what apply_recommendation leaves behind: its response, the rows and the
\* identifier counter afterwards, the item it added (None if none) and the
\* external calls it made
Outcome(response, rows, id, added, external) ==
    [response |-> response, rows |-> rows, nextId |-> id, added |-> added,
     external |-> external]

\* ApplySelected asking the store before it embeds the selected text
ApplySelected_WriteFirst(rows, id, now, most_similar, selected_rec, env, external) ==
    IF selected_rec.updated_text.t # "str"
    THEN Outcome(FailedResponse, rows, id, None, external)
    ELSE IF ~env.emb2.ok
    THEN Outcome(FailedResponse, rows, id, None,
                 external \o <<EmbeddingCall(selected_rec.updated_text.s)>>)
    ELSE LET knowledge_item ==
                 [category |-> StoredText(selected_rec.category),
                  content |-> selected_rec.updated_text.s,
                  tags |-> TagsList(IF most_similar # None
                                    THEN <<"updated">> ELSE <<"new">>),
                  embedding |-> env.emb2.v]
             add == add_knowledge_item(rows, id, now, knowledge_item, env.fault)
             made == external
                     \o [i \in DOMAIN add.requests |-> StoreCall(add.requests[i])]
                     \o <<EmbeddingCall(selected_rec.updated_text.s)>>
         IN  IF add.raised THEN Outcome(FailedResponse, rows, id, None, made)
             ELSE IF ~ValidatesAsStr(selected_rec.category, env.coerce)
             THEN Outcome(FailedResponse, add.rows, add.nextId, knowledge_item, made)
             ELSE Outcome([success |-> TRUE,
                           category |-> StoredText(selected_rec.category),
                           record_id |-> add.record.id,
                           action_taken |-> IF most_similar # None
                                            THEN "Updated existing category"
                                            ELSE "Created new category"],
                          add.rows, add.nextId, knowledge_item, made)

\* lines 93-112: build the item, embed its text, write it, build the response
ApplySelected(rows, id, now, most_similar, selected_rec, env, external) ==
    IF selected_rec.updated_text.t # "str"
    THEN Outcome(FailedResponse, rows, id, None, external)
    ELSE IF ~env.emb2.ok
    THEN Outcome(FailedResponse, rows, id, None,
                 external \o <<EmbeddingCall(selected_rec.updated_text.s)>>)
    ELSE LET knowledge_item ==
                 [category |-> StoredText(selected_rec.category),
                  content |-> selected_rec.updated_text.s,
                  tags |-> TagsList(IF most_similar # None
                                    THEN <<"updated">> ELSE <<"new">>),
                  embedding |-> env.emb2.v]
             add == add_knowledge_item(rows, id, now, knowledge_item, env.fault)
             made == external \o <<EmbeddingCall(selected_rec.updated_text.s)>>
                     \o [i \in DOMAIN add.requests |-> StoreCall(add.requests[i])]
         IN  IF add.raised THEN Outcome(FailedResponse, rows, id, None, made)
             ELSE IF ~ValidatesAsStr(selected_rec.category, env.coerce)
             THEN Outcome(FailedResponse, add.rows, add.nextId, knowledge_item, made)
             ELSE Outcome([success |-> TRUE,
                           category |-> StoredText(selected_rec.category),
                           record_id |-> add.record.id,
                           action_taken |-> IF most_similar # None
                                            THEN "Updated existing category"
                                            ELSE "Created new category"],
                          add.rows, add.nextId, knowledge_item, made)

\* the whole method; env holds what the providers and the store do during it
apply_recommendation(rows, id, now, text, selected_option, similarity_threshold, env) ==
    LET ssc == SSC(text, similarity_threshold, env.loaded, env.oracle)
        llm == LLMUpdater(text, ssc.best_match, "azure_openai", env.outcome)
        asked == SSCExternal(ssc) \o LLMExternal(text, "azure_openai", env.outcome)
    IN  IF ssc.raised THEN Outcome(FailedResponse, rows, id, None, SSCExternal(ssc))
        ELSE IF llm.raised THEN Outcome(FailedResponse, rows, id, None, asked)
        ELSE IF selected_option < 1 \/ selected_option > Len(llm.recs)
        THEN Outcome(FailedResponse, rows, id, None, asked)
        ELSE ApplySelected(rows, id, now, ssc.best_match, llm.recs[selected_option],
                           env, asked)

(***************************************************************************)
(* The service and the store adapter called one after another.             *)
(***************************************************************************)
\* the part of an added item that C4 speaks of
Carried(knowledge_item) ==
    [content |-> knowledge_item.content, tags |-> TagsOrEmpty(knowledge_item.tags),
     embedding |-> knowledge_item.embedding]

RecordAdd(history, knowledge_item) ==
    [c \in DOMAIN history \cup {knowledge_item.category} |->
        IF c = knowledge_item.category THEN Carried(knowledge_item) ELSE history[c]]

Forget(history, category) ==
    [c \in DOMAIN history \ {category} |-> history[c]]

DirectItems ==
    {[category |-> c, content |-> t, tags |-> g, embedding |-> e] :
        c \in {"Sleep", "Focus"}, t \in {"Sleep helps.", "Deep work."},
        g \in {TagsList(<<"new">>), TagsAbsent}, e \in {<<5, 0>>}}

DeleteCategories == {"Sleep", "Focus", "Memory"}

ApplyTexts == {"", "Sleep improves memory"}

\* selection indexes inside 1..3 and on both sides of it
Options == 0..(NumRecs + 1)

\* 0.8 and 1.5, in hundredths
ApplyThresholds == {80, 150}

\* the requests tried: valid ones, and ones with a single invalid field
ApplyInputs ==
    {i \in [text : ApplyTexts, selected_option : Options,
            similarity_threshold : ApplyThresholds] :
        (IF i.text = "" THEN 1 ELSE 0)
        + (IF i.selected_option \notin 1..NumRecs THEN 1 ELSE 0)
        + (IF i.similarity_threshold \notin 0..100 THEN 1 ELSE 0) <= 1}

\* an answer that passes LLMUpdater's validation; its second category is a number
ServiceAnswer ==
    JArr(<<GoodRec(JStr("Sleep"), JArr(<<JStr("sleep")>>)),
           GoodRec(JNum(7), JArr(<<JStr("sleep")>>)),
           GoodRec(JStr("Focus"), JArr(<<JStr("focus")>>))>>)

ServiceOutcomes ==
    {[k |-> "transport", v |-> JNull], [k |-> "json", v |-> ServiceAnswer]}

\* runs in which every provider and the store answer
GoodEnvs(rows) ==
    {[oracle |-> [i \in 1..EmbeddingCalls(rows) |-> Ok(<<5, 0>>)], loaded |-> Ok(rows),
      outcome |-> oc, emb2 |-> Ok(<<4, 3>>), fault |-> "none", coerce |-> c] :
        oc \in ServiceOutcomes, c \in BOOLEAN}

\* runs in which one of them fails
FaultyEnvs(rows) ==
    UNION {{[b EXCEPT !.oracle = [i \in DOMAIN b.oracle |-> Raised("EmbeddingError")]],
            [b EXCEPT !.oracle = [i \in DOMAIN b.oracle |->
                                     IF i = 1 THEN b.oracle[1]
                                     ELSE Raised("EmbeddingError")]],
            [b EXCEPT !.loaded = Raised("StoreError")],
            [b EXCEPT !.emb2 = Raised("EmbeddingError")],
            [b EXCEPT !.fault = "get"],
            [b EXCEPT !.fault = "write"]} : b \in {g \in GoodEnvs(rows) : g.coerce}}

ApplyEnvs(rows) == GoodEnvs(rows) \cup FaultyEnvs(rows)

AddKnowledgeItem ==
    /\ call = Idle
    /\ clock < MaxClock
    /\ \E knowledge_item \in DirectItems, fault \in {"none", "get", "write"} :
          LET r == add_knowledge_item(store, nextId, clock, knowledge_item, fault)
          IN  /\ store' = r.rows
              /\ nextId' = r.nextId
              /\ lastAdd' = IF r.raised THEN lastAdd
                            ELSE RecordAdd(lastAdd, knowledge_item)
              /\ call' = [op |-> "add_knowledge_item", knowledge_item |-> knowledge_item,
                          before |-> store, result |-> r]
    /\ clock' = clock + 1
    /\ UNCHANGED <<procs, files, offered>>

DeleteKnowledgeItem ==
    /\ call = Idle
    /\ \E category \in DeleteCategories, fault \in {"none", "delete"} :
          LET r == delete_knowledge_item(store, category, fault)
          IN  /\ store' = r.rows
              /\ lastAdd' = IF r.raised THEN lastAdd ELSE Forget(lastAdd, category)
              /\ call' = [op |-> "delete_knowledge_item", category |-> category,
                          before |-> store, result |-> r]
    /\ UNCHANGED <<clock, nextId, procs, files, offered>>

ApplyRecommendation ==
    /\ call = Idle
    /\ clock < MaxClock
    /\ \E input \in ApplyInputs, env \in ApplyEnvs(store) :
          LET r == apply_recommendation(store, nextId, clock, input.text,
                                        input.selected_option,
                                        input.similarity_threshold, env)
          IN  /\ store' = r.rows
              /\ nextId' = r.nextId
              /\ lastAdd' = IF r.added = None THEN lastAdd
                            ELSE RecordAdd(lastAdd, r.added)
              /\ call' = [op |-> "apply_recommendation", text |-> input.text,
                          selected_option |-> input.selected_option,
                          similarity_threshold |-> input.similarity_threshold,
                          env |-> env, before |-> store, result |-> r]
    /\ clock' = clock + 1
    /\ UNCHANGED <<procs, files, offered>>

\* stores with at most one record per category
StartStores ==
    {<<>>, <<Row(1, "Sleep", "Old notes", TagsList(<<"updated">>), <<0, 5>>, 0, 0)>>}

Init ==
    /\ store \in StartStores
    /\ clock = 1
    /\ nextId = Len(store) + 1
    /\ call = Idle
    /\ procs = <<>>
    /\ lastAdd = <<>>
    /\ files = <<>>
    /\ offered = None

Next == AddKnowledgeItem \/ DeleteKnowledgeItem \/ Return

Spec == Init /\ [][Next]_vars

\* the tables the service is called on: empty, a category the query matches,
\* that category next to one it does not match, and a record without a
\* stored embedding
ServiceStores ==
    {<<>>,
     <<Row(1, "Notes", "Old notes", TagsList(<<"new">>), <<>>, 1, 1)>>,
     <<Row(1, "Sleep", "Sleep helps.", TagsList(<<"new">>), <<5, 0>>, 1, 1)>>,
     <<Row(1, "Sleep", "Sleep helps.", TagsList(<<"new">>), <<5, 0>>, 1, 1),
       Row(2, "Focus", "Deep work.", TagsList(<<"new">>), <<0, 5>>, 1, 1)>>}

InitService ==
    /\ store \in ServiceStores
    /\ clock = 3
    /\ nextId = Len(store) + 1
    /\ call = Idle
    /\ procs = <<>>
    /\ lastAdd = <<>>
    /\ files = <<>>
    /\ offered = None


(***************************************************************************)
(* Overlapping add_knowledge_item calls.  Each call is three steps: it     *)
(* prepares its data, reads whether the category exists, then updates or   *)
(* inserts; the store serves one request at a time.                        *)
(***************************************************************************)
Processes == 1..MaxProcs

NotRunning == [pc |-> "idle"]

ConcItems ==
    {[category |-> c, content |-> t, tags |-> TagsList(<<"new">>), embedding |-> <<5, 0>>] :
        c \in {"Sleep", "Focus"}, t \in {"Sleep helps.", "Deep work."}}

\* lines 36-43
Prepare(p) ==
    /\ procs[p].pc = "idle"
    /\ clock < MaxClock
    /\ \E knowledge_item \in ConcItems :
          procs' = [procs EXCEPT ![p] = [pc |-> "read", knowledge_item |-> knowledge_item,
                                         data |-> PrepareData(knowledge_item, clock)]]
    /\ clock' = clock + 1
    /\ UNCHANGED <<store, nextId, call, lastAdd, files, offered>>

\* line 46
ReadExisting(p) ==
    /\ procs[p].pc = "read"
    /\ procs' = [procs EXCEPT ![p] =
                    [pc |-> "write", knowledge_item |-> procs[p].knowledge_item,
                     data |-> procs[p].data,
                     existing |-> get_knowledge_by_category(store, procs[p].data.category)]]
    /\ UNCHANGED <<store, clock, nextId, call, lastAdd, files, offered>>

\* lines 48-57
Write(p) ==
    /\ procs[p].pc = "write"
    /\ store' = WriteData(store, procs[p].data, procs[p].existing, nextId)
    /\ nextId' = IF procs[p].existing # None THEN nextId ELSE nextId + 1
    /\ lastAdd' = RecordAdd(lastAdd, procs[p].knowledge_item)
    /\ procs' = [procs EXCEPT ![p] = NotRunning]
    /\ UNCHANGED <<clock, call, files, offered>>

InitConc ==
    /\ store \in StartStores
    /\ clock = 1
    /\ nextId = Len(store) + 1
    /\ call = Idle
    /\ procs = [p \in Processes |-> NotRunning]
    /\ lastAdd = <<>>
    /\ files = <<>>
    /\ offered = None

NextConc == \E p \in Processes : Prepare(p) \/ ReadExisting(p) \/ Write(p)

SpecConc == InitConc /\ [][NextConc]_vars

(***************************************************************************)
(* Statistics and listings (supabase_manager.py, api/service.py,           *)
(* utils/helpers.py).                                                      *)
(***************************************************************************)
TopTags == 10

PreviewLen == 100

Reverse(q) == [i \in 1..Len(q) |-> q[Len(q) + 1 - i]]

\* all_tags.count(tag)
Count(q, x) == Cardinality({i \in DOMAIN q : q[i] = x})

RECURSIVE CollectTags(_, _, _)
\* the loop of lines 124-126 from item i on: all_tags.extend(item.get('tags', []))
\* raises TypeError on a null tags column
CollectTags(all_items, i, all_tags) ==
    IF i > Len(all_items) THEN Ok(all_tags)
    ELSE IF all_items[i].tags.k = "null" THEN Raised("TypeError")
    ELSE CollectTags(all_items, i + 1, all_tags \o TagsOrEmpty(all_items[i].tags).v)

RECURSIVE FirstSeen(_, _)
\* the distinct entries of q in the order of their first occurrence
FirstSeen(q, seen) ==
    IF q = <<>> THEN <<>>
    ELSE IF Head(q) \in seen THEN FirstSeen(Tail(q), seen)
    ELSE <<Head(q)>> \o FirstSeen(Tail(q), seen \cup {Head(q)})

Perms(S) ==
    {f \in [1..Cardinality(S) -> S] : \A i, j \in DOMAIN f : f[i] = f[j] => i = j}

\* list(set(all_tags)): the iteration order of a set is not determined by its
\* elements; small sets are taken in every order, larger ones in two
SetOrders(all_tags) ==
    {FirstSeen(all_tags, {}), Reverse(FirstSeen(all_tags, {}))}
    \cup (IF Cardinality(Range(all_tags)) <= MaxPermuted
          THEN Perms(Range(all_tags)) ELSE {})

RECURSIVE InsertDesc(_, _)
\* x put behind every pair whose count is at least its own
InsertDesc(sorted, x) ==
    IF sorted = <<>> THEN <<x>>
    ELSE IF Head(sorted)[2] >= x[2] THEN <<Head(sorted)>> \o InsertDesc(Tail(sorted), x)
    ELSE <<x>> \o sorted

RECURSIVE SortedDesc(_, _)
\* sorted(items, key=lambda x: x[1], reverse=True): stable, by falling count
SortedDesc(items, i) ==
    IF i = 0 THEN <<>> ELSE InsertDesc(SortedDesc(items, i - 1), items[i])

\* lines 129-138, given the collected tags and the order of list(set(all_tags))
BuildStats(total_items, all_items, all_tags, unique_tags) ==
    LET tag_counts == [i \in DOMAIN unique_tags |->
                          <<unique_tags[i], Count(all_tags, unique_tags[i])>>]
    IN  [total_knowledge_items |-> total_items,
         unique_tags |-> Len(unique_tags),
         categories |-> [i \in DOMAIN all_items |-> all_items[i].category],
         most_common_tags |-> Take(SortedDesc(tag_counts, Len(tag_counts)), TopTags),
         database_type |-> "Supabase"]

\* SupabaseManager.get_database_stats: fault names the store request that
\* raises, if any; unique_tags is the order in which the tag set is iterated
get_database_stats(rows, fault, unique_tags) ==
    IF fault = "count" THEN [raised |-> TRUE, exc |-> "StoreError", requests |-> <<"count">>]
    ELSE IF fault = "load"
    THEN [raised |-> TRUE, exc |-> "StoreError", requests |-> <<"count", "select_all">>]
    ELSE IF ~CollectTags(rows, 1, <<>>).ok
    THEN [raised |-> TRUE, exc |-> "TypeError", requests |-> <<"count", "select_all">>]
    ELSE [raised |-> FALSE,
          stats |-> BuildStats(Len(rows), rows, CollectTags(rows, 1, <<>>).v, unique_tags),
          requests |-> <<"count", "select_all">>]

\* the orders list(set(all_tags)) can have during a call on these rows
TagOrders(rows) ==
    IF CollectTags(rows, 1, <<>>).ok THEN SetOrders(CollectTags(rows, 1, <<>>).v)
    ELSE {<<>>}

\* the except branch of lines 179-187
EmptyStats ==
    [total_knowledge_items |-> 0, unique_tags |-> 0, categories |-> <<>>,
     most_common_tags |-> <<>>, database_type |-> "Unknown"]

\* get_database_statistics without its try
get_database_statistics_NoTry(rows, fault, unique_tags) ==
    LET inner == get_database_stats(rows, fault, unique_tags)
    IN  IF inner.raised THEN [raised |-> TRUE, inner |-> inner]
        ELSE [raised |-> FALSE, response |-> inner.stats, inner |-> inner]

\* KnowledgeService.get_database_statistics
get_database_statistics(rows, fault, unique_tags) ==
    LET inner == get_database_stats(rows, fault, unique_tags)
    IN  IF inner.raised THEN [raised |-> FALSE, response |-> EmptyStats, inner |-> inner]
        ELSE [raised |-> FALSE, response |-> inner.stats, inner |-> inner]

\* content[:100] + "..." if len(content) > 100 else content
Preview(content) ==
    IF Len(content) > PreviewLen THEN SubSeq(content, 1, PreviewLen) \o "..." ELSE content

\* the except branch of lines 153-158
EmptyCategories == [categories |-> <<>>, total_count |-> 0]

\* CategoryResponse(...) of lines 137-145; tags: List[str] rejects None
CategoryResponse(item) ==
    IF item.tags.k = "null" THEN Raised("ValidationError")
    ELSE Ok([id |-> item.id, category |-> item.category, content |-> item.content,
             tags |-> TagsOrEmpty(item.tags).v, created_at |-> item.created_at,
             last_updated |-> item.last_updated,
             content_preview |-> Preview(item.content)])

\* KnowledgeService.get_all_categories: fault "load" is a failing load
get_all_categories(rows, fault) ==
    IF fault = "load" \/ \E i \in DOMAIN rows : ~CategoryResponse(rows[i]).ok
    THEN EmptyCategories
    ELSE [categories |-> [i \in DOMAIN rows |-> CategoryResponse(rows[i]).v],
          total_count |-> Len(rows)]

\* RecommendationResponse(...) of lines 51-57: len() and slicing need a str
\* updated_text, and the three str fields are validated
RecommendationResponse(i, rec, coerce) ==
    IF rec.updated_text.t # "str" THEN Raised("TypeError")
    ELSE IF ~ValidatesAsStr(rec.change, coerce) \/ ~ValidatesAsStr(rec.category, coerce)
    THEN Raised("ValidationError")
    ELSE Ok([option_number |-> i, change |-> StoredText(rec.change),
             updated_text |-> rec.updated_text.s,
             category |-> StoredText(rec.category),
             preview |-> Preview(rec.updated_text.s)])

\* KnowledgeService.process_text; nothing in it catches an exception
process_text(rows, text, similarity_threshold, env) ==
    LET ssc == SSC(text, similarity_threshold, env.loaded, env.oracle)
        llm == LLMUpdater(text, ssc.best_match, "azure_openai", env.outcome)
        asked == SSCExternal(ssc) \o LLMExternal(text, "azure_openai", env.outcome)
        formatted == [i \in DOMAIN llm.recs |->
                         RecommendationResponse(i, llm.recs[i], env.coerce)]
    IN  IF ssc.raised THEN [raised |-> TRUE, external |-> SSCExternal(ssc)]
        ELSE IF llm.raised THEN [raised |-> TRUE, external |-> asked]
        ELSE IF \E i \in DOMAIN formatted : ~formatted[i].ok
        THEN [raised |-> TRUE, external |-> asked]
        ELSE [raised |-> FALSE, external |-> asked,
              response |->
                 [recommendations |-> [i \in DOMAIN formatted |-> formatted[i].v],
                  similar_category |-> IF ssc.best_match # None
                                       THEN ssc.best_match.category ELSE None,
                  similarity_score |-> IF ssc.best_match # None
                                       THEN ssc.best_match.similarity_score ELSE None]]

\* helpers.update_category: fault names the request that raises, if any;
\* emb is what get_embedding(new_content) does
update_category(rows, id, now, category, new_content, emb, fault) ==
    LET existing_item == get_knowledge_by_category(rows, category)
        updated_item == [category |-> category, content |-> new_content,
                         tags |-> TagsOrEmpty(existing_item.tags), embedding |-> emb.v]
        add == add_knowledge_item(rows, id, now, updated_item,
                                  IF fault = "add_get" THEN "get"
                                  ELSE IF fault = "add_write" THEN "write" ELSE "none")
    IN  IF fault = "get"
        THEN [raised |-> TRUE, rows |-> rows, nextId |-> id, added |-> None]
        ELSE IF existing_item = None
        THEN [raised |-> FALSE, returned |-> FALSE, rows |-> rows, nextId |-> id,
              added |-> None]
        ELSE IF ~emb.ok \/ add.raised
        THEN [raised |-> TRUE, rows |-> rows, nextId |-> id, added |-> None]
        ELSE [raised |-> FALSE, returned |-> add.record # None, rows |-> add.rows,
              nextId |-> add.nextId, added |-> updated_item]

(***************************************************************************)
(* The HTTP handlers of src/main.py and their request model                *)
(* (src/api_models.py).                                                    *)
(***************************************************************************)
\* TextInput.validate_llm_type
validate_llm_type(v) == v \in {"openai", "groq"}

\* TextInput(...): the validated request, or the validation error
TextInput(body) ==
    IF Strip(body.text) = "" \/ body.threshold < 0 \/ body.threshold > 100
       \/ ~validate_llm_type(body.llm_type)
    THEN Raised("ValidationError")
    ELSE Ok([text |-> Strip(body.text), threshold |-> body.threshold,
             llm_type |-> body.llm_type])

\* recommendations: List[Dict[str, str]] accepts a dict only when all its
\* values are str; rec['tags'] is a list on both paths of LLMUpdater
\* (llm_updater.py:76, 258), so no recommendation passes
IsStrDict(rec) == FALSE

\* get_recommendations and process_full, whose bodies are the same: the status
\* answered, the path the recommendations came from and the external calls
get_recommendations(rows, body, env) ==
    LET input_data == TextInput(body)
        ssc == SSC(input_data.v.text, input_data.v.threshold, env.loaded, env.oracle)
        llm == LLMUpdater(input_data.v.text, ssc.best_match, input_data.v.llm_type,
                          env.outcome)
        asked == SSCExternal(ssc)
                 \o LLMExternal(input_data.v.text, input_data.v.llm_type, env.outcome)
    IN  IF ~input_data.ok
        THEN [accepted |-> FALSE, status |-> 422, path |-> "none", external |-> <<>>]
        ELSE IF ssc.raised
        THEN [accepted |-> TRUE, status |-> 500, path |-> "none",
              external |-> SSCExternal(ssc)]
        ELSE IF llm.raised
        THEN [accepted |-> TRUE, status |-> 500, path |-> "none", external |-> asked]
        ELSE IF \E i \in DOMAIN llm.recs : ~IsStrDict(llm.recs[i])
        THEN [accepted |-> TRUE, status |-> 500, path |-> llm.path, external |-> asked]
        ELSE [accepted |-> TRUE, status |-> 200, path |-> llm.path, external |-> asked]

(***************************************************************************)
(* The read operations and the helper update_category, called on stores    *)
(* with tags of every shape.                                               *)
(***************************************************************************)
ManyTags == <<"d", "e", "f", "g", "h", "i", "j", "k", "l">>

OpsStores ==
    {<<>>,
     <<Row(1, "Sleep", "Sleep helps.", TagsList(<<"a", "b">>), <<5, 0>>, 0, 0),
       Row(2, "Focus", "Deep work.", TagsList(<<"b", "c">>), <<0, 5>>, 0, 0)>>,
     <<Row(1, "Sleep", "Sleep helps.", TagsList(<<"a", "b">>), <<5, 0>>, 0, 0),
       Row(2, "Focus", "Deep work.", TagsList(<<"b", "c">>), <<0, 5>>, 0, 0),
       Row(3, "Memory", Repeat("x", PreviewLen + 1), TagsList(ManyTags \o <<"c", "b">>),
           <<4, 3>>, 0, 0)>>,
     <<Row(1, "Notes", "Old notes", TagsNull, <<5, 0>>, 0, 0)>>,
     <<Row(1, "Notes", "Old notes", TagsAbsent, <<5, 0>>, 0, 0),
       Row(2, "Sleep", "Sleep helps.", TagsList(<<"a", "a">>), <<5, 0>>, 0, 0)>>}

GetDatabaseStats ==
    /\ call = Idle
    /\ \E fault \in {"none", "count", "load"}, unique_tags \in TagOrders(store) :
          call' = [op |-> "get_database_stats", fault |-> fault, before |-> store,
                   result |-> get_database_stats(store, fault, unique_tags)]
    /\ UNCHANGED <<store, clock, nextId, procs, lastAdd, files, offered>>

GetDatabaseStatistics ==
    /\ call = Idle
    /\ \E fault \in {"none", "count", "load"}, unique_tags \in TagOrders(store) :
          call' = [op |-> "get_database_statistics", fault |-> fault, before |-> store,
                   result |-> get_database_statistics(store, fault, unique_tags)]
    /\ UNCHANGED <<store, clock, nextId, procs, lastAdd, files, offered>>

GetAllCategories ==
    /\ call = Idle
    /\ \E fault \in {"none", "load"} :
          call' = [op |-> "get_all_categories", fault |-> fault, before |-> store,
                   result |-> get_all_categories(store, fault)]
    /\ UNCHANGED <<store, clock, nextId, procs, lastAdd, files, offered>>

UpdateCategory ==
    /\ call = Idle
    /\ clock < MaxClock
    /\ \E category \in {"Sleep", "Notes", "Missing"},
          new_content \in {"Sleep helps memory."},
          emb \in {Ok(<<4, 3>>), Raised("EmbeddingError")},
          fault \in {"none", "get", "add_get", "add_write"} :
          LET r == update_category(store, nextId, clock, category, new_content, emb, fault)
          IN  /\ store' = r.rows
              /\ nextId' = r.nextId
              /\ lastAdd' = IF r.added = None THEN lastAdd ELSE RecordAdd(lastAdd, r.added)
              /\ call' = [op |-> "update_category", category |-> category,
                          new_content |-> new_content, before |-> store, result |-> r]
    /\ clock' = clock + 1
    /\ UNCHANGED <<procs, files, offered>>

Bodies ==
    {[text |-> t, threshold |-> h, llm_type |-> l] :
        t \in {" Sleep improves memory ", "  "}, h \in {80, 150},
        l \in {"openai", "groq", "azure_openai"}}

\* what the providers do during a handler; the chat-completion provider
\* answers only when it is called
HandlerEnvs(rows, llm_type) ==
    {[oracle |-> [i \in 1..EmbeddingCalls(rows) |-> e], loaded |-> Ok(rows),
      outcome |-> oc, coerce |-> TRUE] :
        e \in {Ok(<<5, 0>>), Raised("EmbeddingError")},
        oc \in OutcomesFor(llm_type, ServiceOutcomes)}

GetRecommendations ==
    /\ call = Idle
    /\ \E route \in {"/api/recommendations", "/api/process-full"}, body \in Bodies :
       \E env \in HandlerEnvs(store, body.llm_type) :
          call' = [op |-> "get_recommendations", route |-> route, body |-> body,
                   before |-> store, result |-> get_recommendations(store, body, env)]
    /\ UNCHANGED <<store, clock, nextId, procs, lastAdd, files, offered>>

InitOps ==
    /\ store \in OpsStores
    /\ clock = 1
    /\ nextId = Len(store) + 1
    /\ call = Idle
    /\ procs = <<>>
    /\ lastAdd = <<>>
    /\ files = <<>>
    /\ offered = None

NextOps ==
    \/ GetDatabaseStats
    \/ GetDatabaseStatistics
    \/ GetAllCategories
    \/ UpdateCategory
    \/ GetRecommendations
    \/ Return

SpecOps == InitOps /\ [][NextOps]_vars

(***************************************************************************)
(* The service called on a store: process_text and apply_recommendation.   *)
(***************************************************************************)
\* int(decision) on the stripped line: an optionally signed run of digits
IsDigits(t) == t # "" /\ \A i \in 1..Len(t) : Contains(Digits, SubSeq(t, i, i))

DigitValue(c) == CHOOSE n \in 0..9 : SubSeq(Digits, n + 1, n + 1) = c

RECURSIVE DigitsToInt(_)
DigitsToInt(t) ==
    IF t = "" THEN 0
    ELSE 10 * DigitsToInt(SubSeq(t, 1, Len(t) - 1)) + DigitValue(SubSeq(t, Len(t), Len(t)))

PyInt(decision) ==
    LET t == Strip(decision)
        sign == IF t = "" THEN "" ELSE SubSeq(t, 1, 1)
        body == IF sign \in {"+", "-"} THEN SubSeq(t, 2, Len(t)) ELSE t
    IN  IF ~IsDigits(body) THEN Raised("ValueError")
        ELSE Ok(IF sign = "-" THEN 0 - DigitsToInt(body) ELSE DigitsToInt(body))

\* rec['updated_text'][:100] of the display loop: slicing needs a str or a list
Sliceable(v) == v.t \in {"str", "arr"}

\* lines 64-78 of process_input_text: build the item, embed its text, write it
PipelineSelected(rows, id, now, most_similar, selected_rec, env, external) ==
    IF selected_rec.updated_text.t # "str"
    THEN [raised |-> TRUE, rows |-> rows, nextId |-> id, added |-> None,
          external |-> external]
    ELSE IF ~env.emb2.ok
    THEN [raised |-> TRUE, rows |-> rows, nextId |-> id, added |-> None,
          external |-> external \o <<EmbeddingCall(selected_rec.updated_text.s)>>]
    ELSE LET knowledge_item ==
                 [category |-> StoredText(selected_rec.category),
                  content |-> selected_rec.updated_text.s,
                  tags |-> TagsList(IF most_similar # None
                                    THEN <<"updated">> ELSE <<"new">>),
                  embedding |-> env.emb2.v]
             add == add_knowledge_item(rows, id, now, knowledge_item, env.fault)
             made == external \o <<EmbeddingCall(selected_rec.updated_text.s)>>
                     \o [i \in DOMAIN add.requests |-> StoreCall(add.requests[i])]
         IN  IF add.raised
             THEN [raised |-> TRUE, rows |-> rows, nextId |-> id, added |-> None,
                   external |-> made]
             ELSE [raised |-> FALSE, rows |-> add.rows, nextId |-> add.nextId,
                   added |-> knowledge_item, external |-> made]

\* process_input_text (src/src/processing/pipeline.py); decision is the line
\* the user types at the prompt
process_input_text(rows, id, now, input_text, similarity_threshold, llm_type, decision, env) ==
    LET used_type == IF llm_type # "azure_openai" THEN "azure_openai" ELSE llm_type
        ssc == SSC(input_text, similarity_threshold, env.loaded, env.oracle)
        llm == LLMUpdater(input_text, ssc.best_match, used_type, env.outcome)
        asked == SSCExternal(ssc) \o LLMExternal(input_text, used_type, env.outcome)
        option_num == PyInt(decision)
        Stopped(external) == [raised |-> TRUE, rows |-> rows, nextId |-> id,
                              added |-> None, external |-> external]
        Unchanged == [raised |-> FALSE, rows |-> rows, nextId |-> id,
                      added |-> None, external |-> asked]
    IN  IF ssc.raised THEN Stopped(SSCExternal(ssc))
        ELSE IF llm.raised THEN Stopped(asked)
        ELSE IF \E i \in DOMAIN llm.recs : ~Sliceable(llm.recs[i].updated_text)
        THEN Stopped(asked)
        ELSE IF ~option_num.ok THEN Unchanged
        ELSE IF ~(1 <= option_num.v /\ option_num.v <= NumRecs) THEN Unchanged
        ELSE IF option_num.v > Len(llm.recs) THEN Stopped(asked)
        ELSE PipelineSelected(rows, id, now, ssc.best_match, llm.recs[option_num.v],
                              env, asked)

\* what the user types: options, one with blanks around it, a number that is
\* no option and a line that is no number
Decisions == {"2", " 3 ", "4", "two"}

ProcessInputText ==
    /\ call = Idle
    /\ clock < MaxClock
    /\ \E input_text \in ApplyTexts \ {""}, similarity_threshold \in ApplyThresholds,
          llm_type \in {"azure_openai", "openai"}, decision \in Decisions,
          env \in ApplyEnvs(store) :
          LET r == process_input_text(store, nextId, clock, input_text,
                                      similarity_threshold, llm_type, decision, env)
          IN  /\ store' = r.rows
              /\ nextId' = r.nextId
              /\ lastAdd' = IF r.added = None THEN lastAdd
                            ELSE RecordAdd(lastAdd, r.added)
              /\ call' = [op |-> "process_input_text", text |-> input_text,
                          similarity_threshold |-> similarity_threshold,
                          llm_type |-> llm_type, decision |-> decision,
                          env |-> env, before |-> store, result |-> r]
    /\ clock' = clock + 1
    /\ UNCHANGED <<procs, files, offered>>

\* process_text neither embeds a selected text nor writes
ProcessEnvs(rows) ==
    {e \in ApplyEnvs(rows) : e.emb2.ok /\ e.fault = "none"}

ProcessText ==
    /\ call = Idle
    /\ \E text \in ApplyTexts, similarity_threshold \in ApplyThresholds,
          env \in ProcessEnvs(store) :
          call' = [op |-> "process_text", text |-> text,
                   similarity_threshold |-> similarity_threshold,
                   env |-> env, before |-> store,
                   result |-> process_text(store, text, similarity_threshold, env)]
    /\ UNCHANGED <<store, clock, nextId, procs, lastAdd, files, offered>>

NextService ==
    \/ ApplyRecommendation
    \/ ProcessText
    \/ ProcessInputText
    \/ UpdateCategory
    \/ Return

SpecService == InitService /\ [][NextService]_vars

(***************************************************************************)
(* A client of the service: it asks process_text for the options, keeps    *)
(* the answer, and later sends apply_recommendation with the same text and *)
(* threshold and the number of the option it chose.  Other requests delete *)
(* categories in between.                                                  *)
(***************************************************************************)
\* the client receives the ProcessTextResponse and keeps it
KeepOffer ==
    /\ call # Idle
    /\ call.op = "process_text"
    /\ ~call.result.raised
    /\ offered' = [text |-> call.text,
                   similarity_threshold |-> call.similarity_threshold,
                   response |-> call.result.response]
    /\ call' = Idle
    /\ UNCHANGED <<store, clock, nextId, procs, lastAdd, files>>

NextClient ==
    \/ ProcessText
    \/ KeepOffer
    \/ DeleteKnowledgeItem
    \/ ApplyRecommendation
    \/ Return

SpecClient == InitService /\ [][NextClient]_vars

(***************************************************************************)
(* The file store (src/src/database/manager.py): one JSON file per         *)
(* category in the knowledge folder, named after the category.             *)
(***************************************************************************)
RECURSIVE ReplaceChar(_, _, _)
\* str.replace(old, new) for one-character strings
ReplaceChar(t, old, new) ==
    IF t = "" THEN ""
    ELSE (IF SubSeq(t, 1, 1) = old THEN new ELSE SubSeq(t, 1, 1))
         \o ReplaceChar(SubSeq(t, 2, Len(t)), old, new)

\* category.replace(' ', '_').replace('/', '_') and the ".json" suffix
FileName(category) ==
    ReplaceChar(ReplaceChar(category, " ", "_"), "/", "_") \o ".json"

\* open(path, 'w') and json.dump: the file is created or replaced
add_knowledge_to_database(folder, knowledge_item) ==
    [f \in DOMAIN folder \cup {FileName(knowledge_item.category)} |->
        IF f = FileName(knowledge_item.category) THEN knowledge_item ELSE folder[f]]

\* os.path.exists, os.remove: the folder afterwards and the value returned
delete_knowledge_from_database(folder, category) ==
    IF FileName(category) \in DOMAIN folder
    THEN [folder |-> [f \in DOMAIN folder \ {FileName(category)} |-> folder[f]],
          returned |-> TRUE]
    ELSE [folder |-> folder, returned |-> FALSE]

\* manager.get_knowledge_by_category: the item in the file, or None
file_get_knowledge_by_category(folder, category) ==
    IF FileName(category) \in DOMAIN folder THEN folder[FileName(category)] ELSE None

\* category names: three that differ by a space, an underscore or a slash,
\* and one apart
FileCategories == {"Deep Work", "Deep_Work", "Deep/Work", "Sleep"}

FileItems ==
    {[category |-> c, content |-> t, tags |-> <<"new">>, embedding |-> <<5, 0>>] :
        c \in FileCategories, t \in {"Old notes", "New notes"}}

AddKnowledgeToDatabase ==
    /\ call = Idle
    /\ \E knowledge_item \in FileItems :
          /\ files' = add_knowledge_to_database(files, knowledge_item)
          /\ call' = [op |-> "add_knowledge_to_database",
                      knowledge_item |-> knowledge_item, before |-> files]
    /\ UNCHANGED <<store, clock, nextId, procs, lastAdd, offered>>

DeleteKnowledgeFromDatabase ==
    /\ call = Idle
    /\ \E category \in FileCategories :
          LET r == delete_knowledge_from_database(files, category)
          IN  /\ files' = r.folder
              /\ call' = [op |-> "delete_knowledge_from_database",
                          category |-> category, before |-> files,
                          result |-> r.returned]
    /\ UNCHANGED <<store, clock, nextId, procs, lastAdd, offered>>

FileGetKnowledgeByCategory ==
    /\ call = Idle
    /\ \E category \in FileCategories :
          call' = [op |-> "file_get_knowledge_by_category", category |-> category,
                   before |-> files,
                   result |-> file_get_knowledge_by_category(files, category)]
    /\ UNCHANGED <<store, clock, nextId, procs, lastAdd, files, offered>>

InitFiles ==
    /\ store = <<>>
    /\ clock = 1
    /\ nextId = 1
    /\ call = Idle
    /\ procs = <<>>
    /\ lastAdd = <<>>
    /\ files = <<>>
    /\ offered = None

NextFiles ==
    \/ AddKnowledgeToDatabase
    \/ DeleteKnowledgeFromDatabase
    \/ FileGetKnowledgeByCategory
    \/ Return

SpecFiles == InitFiles /\ [][NextFiles]_vars

(***************************************************************************)
(* The application of src/main.py: /api/apply-recommendation writes the    *)
(* file store, /api/similarity ranks with SSC.                             *)
(***************************************************************************)
\* the apply_recommendation handler of main.py: emb is what
\* get_embedding(input_data.content) does
main_apply_recommendation(folder, input_data, emb) ==
    LET knowledge_item ==
            [category |-> input_data.category, content |-> input_data.content,
             tags |-> TagsList(input_data.tags), embedding |-> emb.v,
             last_updated |-> "now"]
    IN  IF ~emb.ok THEN [status |-> 500, folder |-> folder, added |-> None]
        ELSE [status |-> 200,
              folder |-> add_knowledge_to_database(folder, knowledge_item),
              added |-> knowledge_item]

\* the check_similarity handler; scanned are the items SSC went through
check_similarity(rows, body, env) ==
    LET input_data == TextInput(body)
        ssc == SSC(input_data.v.text, input_data.v.threshold, env.loaded, env.oracle)
    IN  IF ~input_data.ok THEN [status |-> 422, scanned |-> <<>>]
        ELSE IF ssc.raised THEN [status |-> 500, scanned |-> ssc.items]
        ELSE [status |-> 200, similar_found |-> ssc.best_match # None,
              most_similar |-> ssc.best_match, scanned |-> ssc.items]

\* ApplyRecommendationInput: the requests tried
ApplyBodies ==
    {[category |-> c, content |-> "Sleep helps memory.", change |-> "Merged.",
      tags |-> <<"applied">>, database_folder |-> "data"] : c \in {"Sleep", "Focus"}}

\* what the embedding provider and the table do during /api/similarity
SimilarityEnvs(rows) ==
    {[oracle |-> [i \in 1..EmbeddingCalls(rows) |-> e], loaded |-> l] :
        e \in {Ok(<<5, 0>>), Raised("EmbeddingError")}, l \in LoadOutcomes(rows)}

MainApplyRecommendation ==
    /\ call = Idle
    /\ \E input_data \in ApplyBodies, emb \in {Ok(<<4, 3>>), Raised("EmbeddingError")} :
          LET r == main_apply_recommendation(files, input_data, emb)
          IN  /\ files' = r.folder
              /\ lastAdd' = IF r.added = None THEN lastAdd
                            ELSE RecordAdd(lastAdd, r.added)
              /\ call' = [op |-> "main_apply_recommendation",
                          input_data |-> input_data, before |-> files, result |-> r]
    /\ UNCHANGED <<store, clock, nextId, procs, offered>>

CheckSimilarity ==
    /\ call = Idle
    /\ \E body \in Bodies, env \in SimilarityEnvs(store) :
          call' = [op |-> "check_similarity", body |-> body, env |-> env,
                   result |-> check_similarity(store, body, env)]
    /\ UNCHANGED <<store, clock, nextId, procs, lastAdd, files, offered>>

InitMain ==
    /\ store \in ServiceStores
    /\ clock = 1
    /\ nextId = Len(store) + 1
    /\ call = Idle
    /\ procs = <<>>
    /\ lastAdd = <<>>
    /\ files = <<>>
    /\ offered = None

NextMain == MainApplyRecommendation \/ CheckSimilarity \/ Return

SpecMain == InitMain /\ [][NextMain]_vars

(***************************************************************************)
(* Claims about the similarity ranker, checked under SpecRank.             *)
(***************************************************************************)
\* the positions of the stored items a similarity was computed for
Scored(sims) == {i \in DOMAIN sims : sims[i] # None}

\* C1: for every store content, every assignment of similarity scores and
\* every threshold t in [0, 1], a returning SSC yields a stored item whose
\* similarity is the maximum over the stored items and strictly above t, and
\* yields None exactly when the store is empty or no similarity exceeds t.
C1_RankerReturnsMaximum ==
    (call.op = "SSC" /\ ~call.result.raised /\ call.threshold \in 0..100) =>
        LET sims == call.result.sims
            best_match == call.result.best_match
            above == {i \in Scored(sims) : sims[i].v > call.threshold}
        IN  /\ Len(sims) = Len(store)
            /\ best_match = None <=> above = {}
            /\ best_match # None =>
                  \E i \in above :
                      /\ best_match = WithScore(store[i], sims[i].v)
                      /\ \A j \in Scored(sims) : sims[j].v <= sims[i].v

\* C1 witness: SSC returned the best of several items above the threshold
C1_Witness ==
    /\ call.op = "SSC"
    /\ ~call.result.raised
    /\ call.threshold \in 0..100
    /\ call.result.best_match # None
    /\ \E j \in Scored(call.result.sims) :
          /\ call.result.sims[j].v > call.threshold
          /\ call.result.sims[j].v < call.result.best_match.similarity_score

C25_ScoreAboveThresholdAndZero ==
    (call.op = "SSC" /\ call.result.best_match # None) =>
        LET sims == call.result.sims
            score == call.result.best_match.similarity_score
        IN  /\ ~call.result.raised
            /\ score > call.threshold
            /\ score > 0
            /\ \E i \in Scored(sims) :
                  /\ sims[i].v = score
                  /\ call.result.best_match = WithScore(store[i], score)

\* C25 witness: under a negative threshold an item of similarity 0 passed the
\* threshold, and the match returned is another item, of positive score
C25_Witness ==
    /\ call.op = "SSC"
    /\ call.threshold < 0
    /\ call.result.best_match # None
    /\ \E i \in Scored(call.result.sims) :
          /\ call.result.sims[i].v <= 0
          /\ call.result.sims[i].v > call.threshold
          /\ call.result.best_match.id # store[i].id

\* the contents SSC has to embed: those of the items without a stored
\* embedding and with content, in store order
RECURSIVE ContentsToEmbed(_)
ContentsToEmbed(rows) ==
    IF rows = <<>> THEN <<>>
    ELSE (IF Head(rows).embedding = <<>> /\ Head(rows).content # ""
          THEN <<Head(rows).content>> ELSE <<>>) \o ContentsToEmbed(Tail(rows))

\* C17: a returning SSC has called the embedding provider once on the query
\* text and then once on the content of each item that has no stored
\* embedding but has content, and on nothing else; an item with neither has
\* no similarity and is never the returned match.  A raising SSC has made a
\* non-empty prefix of these calls.
C17_EmbeddingCallsPerItem ==
    call.op = "SSC" =>
        LET expected == <<call.text>> \o ContentsToEmbed(store)
            made == call.result.calls
        IN  IF call.result.raised
            THEN /\ made # <<>>
                 /\ Len(made) <= Len(expected)
                 /\ made = SubSeq(expected, 1, Len(made))
            ELSE /\ made = expected
                 /\ \A i \in DOMAIN store :
                       (store[i].embedding = <<>> /\ store[i].content = "") =>
                           /\ call.result.sims[i] = None
                           /\ call.result.best_match # None =>
                                 call.result.best_match.id # store[i].id

\* one scan met an item with a stored embedding, one embedded on the fly and
\* one skipped
C17_Witness ==
    /\ call.op = "SSC"
    /\ ~call.result.raised
    /\ Len(call.result.calls) = 2
    /\ \E i, j, k \in DOMAIN store :
          /\ store[i].embedding # <<>>
          /\ store[j].embedding = <<>> /\ store[j].content # ""
          /\ store[k].embedding = <<>> /\ store[k].content = ""
          /\ call.result.sims[k] = None

(***************************************************************************)
(* Claims about the recommendation generator, checked under SpecLLM.       *)
(***************************************************************************)
RequiredKeySet == {required_keys[i] : i \in DOMAIN required_keys}

IsLowercase(x) == x = Lower(x)

\* C2: a call of LLMUpdater that returns yields a list of exactly 3
\* recommendations, each with the keys change, updated_text, category and tags,
\* whatever the text, the best match and the provider's behaviour were.
C2_ThreeRecommendations ==
    (call.op = "LLMUpdater" /\ ~call.result.raised) =>
        /\ Len(call.result.recs) = 3
        /\ \A i \in DOMAIN call.result.recs :
              RequiredKeySet \subseteq DOMAIN call.result.recs[i]

\* C2 witness: the provider answered a JSON array of 4 elements and the call
\* returned
C2_Witness ==
    /\ call.op = "LLMUpdater"
    /\ call.outcome.k = "json"
    /\ call.outcome.v.t = "arr"
    /\ Len(call.outcome.v.a) = 4
    /\ ~call.result.raised

\* C3 (as claimed): whenever the primary path fails, LLMUpdater raises nothing
\* and returns exactly generate_fallback_recommendations(input_text,
\* existing_item), for every best match, also one whose tags are absent or null.
C3_FallbackOnEveryFailure ==
    (call.op = "LLMUpdater" /\ ~PrimaryPath(call.llm_type, call.outcome).ok) =>
        /\ ~call.result.raised
        /\ generate_fallback_recommendations(call.input_text, call.existing_item).ok
        /\ call.result.recs =
              generate_fallback_recommendations(call.input_text, call.existing_item).v

\* C6 (as claimed): each of the 3 fallback recommendations has at most 5 tags,
\* all of them lowercase.
C6_FallbackTagsBounded ==
    (call.op = "fallback" /\ call.result.ok) =>
        /\ Len(call.result.v) = 3
        /\ \A i \in DOMAIN call.result.v :
              /\ Len(call.result.v[i].tags) <= 5
              /\ \A j \in DOMAIN call.result.v[i].tags :
                    IsLowercase(call.result.v[i].tags[j])

\* C7 (as claimed): with a best match, recommendations 1 and 2 differ in
\* updated_text; and recommendation 3 always proposes a category distinct from
\* the best match's and from those of recommendations 1 and 2.
C7_FallbackDistinct ==
    (call.op = "fallback" /\ call.result.ok) =>
        LET r == call.result.v
        IN  /\ call.existing_item # None => r[1].updated_text # r[2].updated_text
            /\ r[3].category # r[1].category
            /\ r[3].category # r[2].category
            /\ call.existing_item # None =>
                  r[3].category # JStr(call.existing_item.category)

\* the tags of the best match as a list: the stored list, or none
TagsOf(item) == IF item.tags.k = "list" THEN item.tags.v ELSE <<>>

\* C21 (as claimed): generate_fallback_recommendations returns the template for
\* every input. With a best match: recommendation 1 has its category, its
\* content followed by the "[ADDITION]" marker and the input, and its tags +
\* "updated" + keyword tags; recommendation 2 has its category, the input, and
\* keyword tags + "updated". Without one: recommendations 1 and 2 have category
\* "New Knowledge Category", the input and the input under a heading, and
\* keyword tags + "new" and keyword tags + "formatted" + "new". Recommendation
\* 3 has category "New Category", the input, keyword tags + "new" + "distinct".
C21_FallbackTemplate ==
    (call.op = "fallback") =>
        /\ call.result.ok
        /\ LET r == call.result.v
               x == call.input_text
               m == call.existing_item
               kw == call.basic_tags
           IN  /\ Len(r) = 3
               /\ m # None =>
                     /\ r[1].category = JStr(m.category)
                     /\ r[1].updated_text = JStr(m.content \o "\n\n[ADDITION]: " \o x)
                     /\ r[1].tags = TagsOf(m) \o <<"updated">> \o kw
                     /\ r[2].category = JStr(m.category)
                     /\ r[2].updated_text = JStr(x)
                     /\ r[2].tags = kw \o <<"updated">>
               /\ m = None =>
                     /\ r[1].category = JStr("New Knowledge Category")
                     /\ r[1].updated_text = JStr(x)
                     /\ r[1].tags = kw \o <<"new">>
                     /\ r[2].category = JStr("New Knowledge Category")
                     /\ r[2].updated_text = JStr("# Overview\n" \o x)
                     /\ r[2].tags = kw \o <<"formatted", "new">>
               /\ r[3].category = JStr("New Category")
               /\ r[3].updated_text = JStr(x)
               /\ r[3].tags = kw \o <<"new", "distinct">>

\* the entries of the model's tags as text: a list as it is, a non-empty
\* scalar as a list of one, an empty scalar (null, 0, "") as no entry
TagEntries(tags) ==
    IF tags.t = "arr" THEN [i \in DOMAIN tags.a |-> PyStr(tags.a[i])]
    ELSE IF Truthy(tags) THEN <<PyStr(tags)>> ELSE <<>>

RECURSIVE DropBlank(_)
DropBlank(q) ==
    IF q = <<>> THEN <<>>
    ELSE (IF Head(q) = "" THEN <<>> ELSE <<Head(q)>>) \o DropBlank(Tail(q))

\* C19: on the primary path each recommendation's tags are the first 5 of the
\* model's tag entries after stripping, lower-casing and dropping the blank
\* ones, or "knowledge", "general" when nothing is left; so there are 1 to 5
\* tags, none blank, none with an upper-case letter.
C19_PrimaryTagsCleaned ==
    (call.op = "LLMUpdater" /\ ~call.result.raised /\ call.result.path = "primary") =>
        \A i \in 1..3 :
            LET entries == TagEntries(call.outcome.v.a[i].o.tags)
                cleaned == DropBlank([j \in DOMAIN entries |-> Lower(Strip(entries[j]))])
                tags == call.result.recs[i].tags
            IN  /\ tags = IF cleaned = <<>> THEN <<"knowledge", "general">>
                          ELSE IF Len(cleaned) > 5 THEN SubSeq(cleaned, 1, 5)
                          ELSE cleaned
                /\ Len(tags) \in 1..5
                /\ \A j \in DOMAIN tags :
                      tags[j] # "" /\ Strip(tags[j]) = tags[j] /\ IsLowercase(tags[j])

\* the provider's six tags were cut to five, and a bare scalar was wrapped
C19_Witness ==
    /\ call.op = "LLMUpdater"
    /\ ~call.result.raised
    /\ call.result.path = "primary"
    /\ \E i \in 1..3 :
          /\ call.outcome.v.a[i].o.tags.t = "arr"
          /\ Len(call.outcome.v.a[i].o.tags.a) = 6
          /\ Len(call.result.recs[i].tags) = 5
    /\ \E i \in 1..3 :
          /\ call.outcome.v.a[i].o.tags.t = "str"
          /\ call.result.recs[i].tags = <<"memory">>

\* the topics of the table with a keyword inside the lower-cased text
MatchingTopics(text) ==
    {i \in DOMAIN tag_keywords :
        \E k \in DOMAIN tag_keywords[i].keywords :
            Contains(Lower(text), tag_keywords[i].keywords[k])}

\* C20: the keyword tagger returns at most 5 tags; when topics match, the
\* tags are the first five matching topics in table order; when none matches,
\* they are "knowledge", with "detailed" exactly when the text has more than
\* 500 characters.
C20_KeywordTagger ==
    call.op = "fallback" =>
        LET tags == call.basic_tags
            M == MatchingTopics(call.input_text)
            Kept == {i \in M : Cardinality({j \in M : j < i}) < 5}
        IN  /\ Len(tags) <= 5
            /\ \A a, b \in DOMAIN tags : tags[a] = tags[b] => a = b
            /\ IF M = {}
               THEN Range(tags) = {"knowledge"} \cup
                        (IF Len(call.input_text) > 500 THEN {"detailed"} ELSE {})
               ELSE /\ Range(tags) = {tag_keywords[i].tag : i \in Kept}
                    /\ \A a, b \in DOMAIN tags : a < b =>
                          \E i, j \in Kept : /\ i < j
                                             /\ tags[a] = tag_keywords[i].tag
                                             /\ tags[b] = tag_keywords[j].tag

\* more than five topics matched a text with capitals, and five tags came back
C20_Witness ==
    /\ call.op = "fallback"
    /\ Cardinality(MatchingTopics(call.input_text)) > 5
    /\ call.input_text # Lower(call.input_text)
    /\ call.basic_tags = <<"ai", "business", "technology", "health", "education">>

(***************************************************************************)
(* Claims about the store adapter, checked under Spec and SpecConc.        *)
(***************************************************************************)
OnePerCategory(rows) ==
    \A i, j \in DOMAIN rows : rows[i].category = rows[j].category => i = j

\* C4: after any sequence of non-overlapping add_knowledge_item and
\* delete_knowledge_item calls on a store with at most one record per category,
\* the store has at most one record per category, and every category added
\* since (and not deleted) has exactly one record, carrying the content, tags
\* and embedding of the latest add.
C4_SequentialAddsKeepOneRecord ==
    /\ OnePerCategory(store)
    /\ \A c \in DOMAIN lastAdd :
          /\ Len(SelectByCategory(store, c)) = 1
          /\ Carried(SelectByCategory(store, c)[1]) = lastAdd[c]

\* a second add of a category has just overwritten the first one's content
C4_Witness ==
    /\ call.op = "add_knowledge_item"
    /\ ~call.result.raised
    /\ call.result.requests = <<"select", "update">>
    /\ call.knowledge_item.category \in DOMAIN lastAdd
    /\ Len(SelectByCategory(call.before, call.knowledge_item.category)) = 1
    /\ SelectByCategory(call.before, call.knowledge_item.category)[1].content
          # call.knowledge_item.content
    /\ Len(SelectByCategory(store, call.knowledge_item.category)) = 1
    /\ SelectByCategory(store, call.knowledge_item.category)[1].content
          = call.knowledge_item.content

\* C5: however two or more overlapping add_knowledge_item calls interleave,
\* the store never holds more than one record of a category.
C5_ConcurrentAddsKeepOneRecord == OnePerCategory(store)

\* C9: a successful add_knowledge_item on a category that has a record leaves
\* that record's id and created_at and every other record as they were; on a
\* category without a record it appends exactly one record stamped with the
\* current time.
C9_UpdateKeepsIdentity ==
    (call.op = "add_knowledge_item" /\ ~call.result.raised) =>
        LET category == call.knowledge_item.category
        IN  IF get_knowledge_by_category(call.before, category) # None
            THEN /\ Len(store) = Len(call.before)
                 /\ \A i \in DOMAIN store :
                       IF call.before[i].category = category
                       THEN /\ store[i].id = call.before[i].id
                            /\ store[i].category = category
                            /\ store[i].created_at = call.before[i].created_at
                       ELSE store[i] = call.before[i]
            ELSE /\ Len(store) = Len(call.before) + 1
                 /\ SubSeq(store, 1, Len(call.before)) = call.before
                 /\ store[Len(store)].category = category
                 /\ store[Len(store)].created_at = store[Len(store)].last_updated

\* C12: a returning delete_knowledge_item(c) answers True exactly when a record
\* of category c existed; then no record of c remains and
\* get_knowledge_by_category(c) finds nothing; otherwise the store is as it
\* was; records of other categories are never touched.
C12_DeleteReportsExistence ==
    (call.op = "delete_knowledge_item" /\ ~call.result.raised) =>
        LET Others(r) == r.category # call.category
            existed == \E i \in DOMAIN call.before : call.before[i].category = call.category
        IN  /\ call.result.deleted <=> existed
            /\ get_knowledge_by_category(store, call.category) = None
            /\ SelectSeq(store, Others) = SelectSeq(call.before, Others)
            /\ ~call.result.deleted => store = call.before

\* a delete removed an existing record and left another category's record alone
C12_Witness ==
    /\ call.op = "delete_knowledge_item"
    /\ ~call.result.raised
    /\ call.result.deleted
    /\ Len(call.before) = 2
    /\ Len(store) = 1
    /\ store[1].category # call.category

(***************************************************************************)
(* Claims about the service, checked under SpecService.                    *)
(***************************************************************************)
InvalidInput(text, selected_option, similarity_threshold) ==
    \/ text = ""
    \/ similarity_threshold \notin 0..100
    \/ selected_option \notin 1..NumRecs

\* C8: apply_recommendation called with an empty text, a threshold outside
\* [0,1] or an option outside 1..3 makes no call to the embedding provider,
\* the chat-completion provider or the store.
C8_InvalidInputMakesNoCall ==
    (/\ call.op = "apply_recommendation"
     /\ InvalidInput(call.text, call.selected_option, call.similarity_threshold))
        => call.result.external = <<>>

\* C10: when apply_recommendation answers success=False the store is as it was
\* before the call; when it answers success=True exactly the record of the
\* selected category was inserted or overwritten.
C10_AllOrNothing ==
    call.op = "apply_recommendation" =>
        IF ~call.result.response.success THEN store = call.before
        ELSE LET Others(r) == r.category # call.result.response.category
             IN  /\ SelectSeq(store, Others) = SelectSeq(call.before, Others)
                 /\ Len(SelectByCategory(store, call.result.response.category)) = 1

\* the embedding provider fails during the call's similarity search: on the
\* query text, or on an item without a stored embedding
SSCEmbeddingFailed(c) ==
    \/ ~c.env.oracle[1].ok
    \/ /\ c.env.loaded.ok
       /\ \E k \in 2..EmbeddingCalls(c.before) : ~c.env.oracle[k].ok

\* C18: when the embedding provider fails during the similarity search of
\* process_text or apply_recommendation, SSC raises and yields no match, the
\* last external call made is the failed embedding request (the
\* chat-completion provider is never called), process_text raises, and the
\* store is as before.
C18_EmbeddingFailureStopsTheCall ==
    (call.op \in {"process_text", "apply_recommendation"} /\ SSCEmbeddingFailed(call)) =>
        LET ssc == SSC(call.text, call.similarity_threshold, call.env.loaded,
                       call.env.oracle)
            made == call.result.external
        IN  /\ ssc.raised
            /\ ssc.best_match = None
            /\ made # <<>>
            /\ made[Len(made)].svc = "embedding"
            /\ \A i \in DOMAIN made : made[i].svc # "llm"
            /\ call.op = "process_text" => call.result.raised
            /\ call.op = "apply_recommendation" => ~call.result.response.success
            /\ store = call.before

\* apply_recommendation stopped at the failed embedding of a stored item
C18_Witness ==
    /\ call.op = "apply_recommendation"
    /\ call.env.oracle[1].ok
    /\ SSCEmbeddingFailed(call)
    /\ Len(call.result.external) = 3
    /\ call.result.external[3] = EmbeddingCall(call.before[1].content)
    /\ store = call.before

\* the positions of a run's external calls that satisfy Test
Positions(external, Test(_)) == {i \in DOMAIN external : Test(external[i])}

IsScan(e) == e = StoreCall("select_all")

IsAdapterRequest(e) == e.svc = "store" /\ e.arg # "select_all"

IsWrite(e) == e.svc = "store" /\ e.arg \in {"update", "insert"}

IsLLMCall(e) == e.svc = "llm"

IsEmbeddingCall(e) == e.svc = "embedding"

\* C22: in every run of apply_recommendation and of process_input_text the
\* external steps come in the order query embedding, store scan,
\* chat-completion call, embedding of the selected text, store write; no
\* request of the write precedes the embedding of the selected text, and the
\* record written holds the embedding obtained for the content it holds.
C22_StepsInOrder ==
    (call.op \in {"apply_recommendation", "process_input_text"}) =>
        LET made == call.result.external
            scans == Positions(made, IsScan)
            asks == Positions(made, IsLLMCall)
            requests == Positions(made, IsAdapterRequest)
            embeds == Positions(made, IsEmbeddingCall)
            added == call.result.added
        IN  /\ made # <<>> => made[1] = EmbeddingCall(call.text)
            /\ \A s \in scans : s > 1 /\ \A g \in asks : s < g
            /\ \A g \in asks : g > 1 /\ \A a \in requests : g < a
            /\ \A a \in requests :
                  \E e \in embeds :
                     /\ e > 1 /\ e < a
                     /\ \A b \in scans \cup asks : b < e
                     /\ \A b \in requests : e < b
            /\ added # None =>
                  /\ Positions(made, IsWrite) # {}
                  /\ \E e \in embeds :
                        /\ \A b \in requests : e < b
                        /\ \A b \in embeds : b <= e
                        /\ made[e].arg = added.content
                  /\ LET record == get_knowledge_by_category(store, added.category)
                     IN  /\ record.content = added.content
                         /\ record.embedding = call.env.emb2.v

\* C22 witness: an apply_recommendation that scanned the store, asked the
\* chat-completion provider, embedded the selected text and wrote the record
C22_Witness ==
    /\ call.op = "apply_recommendation"
    /\ call.result.added # None
    /\ Positions(call.result.external, IsScan) # {}
    /\ Positions(call.result.external, IsLLMCall) # {}
    /\ Positions(call.result.external, IsWrite) # {}

\* the request in the call record c ended with an error
EndedWithError(c) ==
    IF c.op = "apply_recommendation" THEN ~c.result.response.success
    ELSE c.result.raised

\* whether the external call at position i of the run in c failed, by what
\* the providers and the store did during the run
FailedCall(c, i) ==
    LET made == c.result.external
        ssc == SSC(c.text, c.similarity_threshold, c.env.loaded, c.env.oracle)
        nth == Cardinality({j \in 1..i : IsEmbeddingCall(made[j])})
    IN  IF IsEmbeddingCall(made[i])
        THEN (IF nth <= Len(ssc.calls) THEN ~c.env.oracle[nth].ok ELSE ~c.env.emb2.ok)
        ELSE IF IsScan(made[i]) THEN ~c.env.loaded.ok
        ELSE IF IsAdapterRequest(made[i])
        THEN (IF made[i].arg = "select" THEN c.env.fault = "get"
              ELSE c.env.fault = "write")
        ELSE FALSE

\* C23: no external call is retried. In one request the chat-completion
\* provider is asked at most once, the table is loaded at most once, the
\* embedding provider is asked once for the query, at most once per stored item
\* without an embedding and at most once for the selected text, the adapter
\* sends each of its requests at most once; and a failed embedding or store
\* call is the last call of the request, which ends with an error and an
\* unchanged store.
C23_NoRetry ==
    (call.op \in {"process_text", "apply_recommendation", "process_input_text"}) =>
        LET made == call.result.external
            requests == Positions(made, IsAdapterRequest)
            NoEmbedding(k) == call.before[k].embedding = <<>>
        IN  /\ Cardinality(Positions(made, IsLLMCall)) <= 1
            /\ Cardinality(Positions(made, IsScan)) <= 1
            /\ Cardinality(Positions(made, IsEmbeddingCall))
                  <= 2 + Cardinality({k \in DOMAIN call.before : NoEmbedding(k)})
            /\ Cardinality(requests) <= 2
            /\ \A a, b \in requests : made[a].arg = made[b].arg => a = b
            /\ \A i \in DOMAIN made :
                  FailedCall(call, i) =>
                     /\ i = Len(made)
                     /\ EndedWithError(call)
                     /\ store = call.before

\* C23 witness: the chat-completion provider failed, the fallback's
\* recommendation was selected and the store refused the write
C23_Witness ==
    /\ call.op = "apply_recommendation"
    /\ call.env.outcome.k = "transport"
    /\ call.env.fault = "write"
    /\ Positions(call.result.external, IsWrite) # {}
    /\ FailedCall(call, Len(call.result.external))
    /\ ~call.result.response.success

HasScore(item) == "similarity_score" \in DOMAIN item

\* C24: similarity_score is never persisted. SSC leaves the dicts the store
\* returned as they were and puts the score on the match it returns; the item
\* that apply_recommendation, process_input_text or update_category hands to
\* add_knowledge_item has no similarity_score, and no stored record ever has.
C24_ScoreNeverPersisted ==
    /\ \A i \in DOMAIN store : ~HasScore(store[i])
    /\ (/\ call.op \in {"apply_recommendation", "process_input_text", "update_category"}
        /\ call.result.added # None) => ~HasScore(call.result.added)
    /\ (call.op \in {"process_text", "apply_recommendation", "process_input_text"}) =>
          LET ssc == SSC(call.text, call.similarity_threshold, call.env.loaded,
                         call.env.oracle)
          IN  ~ssc.raised =>
                 /\ ssc.items = call.env.loaded.v
                 /\ \A i \in DOMAIN ssc.items : ~HasScore(ssc.items[i])
                 /\ ssc.best_match # None => HasScore(ssc.best_match)

\* C24 witness: apply_recommendation found a match carrying a score and
\* overwrote the record of the matched category
C24_Witness ==
    /\ call.op = "apply_recommendation"
    /\ call.result.added # None
    /\ LET ssc == SSC(call.text, call.similarity_threshold, call.env.loaded,
                      call.env.oracle)
       IN  /\ ssc.best_match # None
           /\ ssc.best_match.similarity_score > 0
           /\ call.result.added.category = ssc.best_match.category
    /\ get_knowledge_by_category(store, call.result.added.category) # None

\* C26 (as claimed): an apply_recommendation(text, k, t) that persists a record
\* persists the recommendation that the preceding process_text(text, t)
\* returned as option k, with the same category and updated_text, whatever the
\* chat-completion provider did on the two calls and whatever was written to
\* the store in between.
C26_ApplyPersistsWhatWasOffered ==
    (/\ call.op = "apply_recommendation"
     /\ call.result.added # None
     /\ offered # None
     /\ offered.text = call.text
     /\ offered.similarity_threshold = call.similarity_threshold
     /\ call.selected_option \in DOMAIN offered.response.recommendations) =>
        LET rec == offered.response.recommendations[call.selected_option]
        IN  /\ call.result.added.category = rec.category
            /\ call.result.added.content = rec.updated_text

\* the recommendation the caller selected in the call record c
SelectedRec(c) ==
    LET ssc == SSC(c.text, c.similarity_threshold, c.env.loaded, c.env.oracle)
        recs == LLMUpdater(c.text, ssc.best_match, "azure_openai", c.env.outcome).recs
    IN  recs[IF c.op = "apply_recommendation" THEN c.selected_option
             ELSE PyInt(c.decision).v]

\* the record persisted equals the recommendation in category and content
SameCategoryAndContent(record, rec) ==
    /\ record.category = StoredText(rec.category)
    /\ rec.updated_text.t = "str"
    /\ record.content = rec.updated_text.s

\* C27 (as claimed): the record that apply_recommendation or
\* process_input_text persists equals the selected recommendation: its category
\* is the recommendation's category, its content the recommendation's
\* updated_text and its tags the recommendation's tags.
C27_PersistedEqualsSelected ==
    (/\ call.op \in {"apply_recommendation", "process_input_text"}
     /\ call.result.added # None) =>
        LET rec == SelectedRec(call)
            record == get_knowledge_by_category(store, call.result.added.category)
        IN  /\ record # None
            /\ SameCategoryAndContent(record, rec)
            /\ record.tags = TagsList(rec.tags)

\* C28 (as claimed): the action_taken of a successful apply_recommendation says
\* what add_knowledge_item did: "Updated existing category" exactly when a
\* record of the selected category existed and was overwritten, "Created new
\* category" exactly when a new record was inserted.
C28_ActionTakenIsWhatHappened ==
    (call.op = "apply_recommendation" /\ call.result.response.success) =>
        LET category == call.result.added.category
            existed == get_knowledge_by_category(call.before, category) # None
            action_taken == call.result.response.action_taken
        IN  /\ action_taken \in {"Updated existing category", "Created new category"}
            /\ action_taken = "Updated existing category" <=>
                  (existed /\ Len(store) = Len(call.before))
            /\ action_taken = "Created new category" <=>
                  (~existed /\ Len(store) = Len(call.before) + 1)

(***************************************************************************)
(* Claims about the read operations, checked under SpecOps.                *)
(***************************************************************************)
Writers == {"apply_recommendation", "add_knowledge_item", "delete_knowledge_item"}

\* C11: every operation other than the apply-recommendation write path and
\* the delete by category leaves the stored records as they were.
C11_OnlyApplyWrites ==
    (call # Idle /\ call.op \notin Writers) => store = call.before

RECURSIVE StoredTags(_)
\* the tags of all records, one after another; a record without tags has none
StoredTags(rows) ==
    IF rows = <<>> THEN <<>>
    ELSE (IF Head(rows).tags.k = "list" THEN Head(rows).tags.v ELSE <<>>)
         \o StoredTags(Tail(rows))

\* C13: with the store answering, get_database_stats returns the number of
\* records, the number of distinct tags, the category names in order, and at
\* most 10 (tag, frequency) pairs of distinct tags with their true frequencies,
\* in non-increasing order of frequency.
C13_StatsCountEverything ==
    (call.op = "get_database_stats" /\ call.fault = "none") =>
        /\ ~call.result.raised
        /\ LET stats == call.result.stats
               top == stats.most_common_tags
           IN  /\ stats.total_knowledge_items = Len(store)
               /\ stats.unique_tags = Cardinality(Range(StoredTags(store)))
               /\ stats.categories = [i \in DOMAIN store |-> store[i].category]
               /\ Len(top) <= 10
               /\ Len(top) = IF stats.unique_tags < 10 THEN stats.unique_tags ELSE 10
               /\ \A i \in DOMAIN top : top[i][2] = Count(StoredTags(store), top[i][1])
               /\ \A i, j \in DOMAIN top : i < j =>
                     top[i][2] >= top[j][2] /\ top[i][1] # top[j][1]
               /\ \A t \in Range(StoredTags(store)) :
                     (\A i \in DOMAIN top : top[i][1] # t) =>
                         \A i \in DOMAIN top : top[i][2] >= Count(StoredTags(store), t)

\* C14: a store failure makes the adapter's get_database_stats raise, while
\* the service's get_database_statistics never raises and answers 0 items,
\* 0 unique tags and empty lists whenever a call inside it failed.
C14_StatsFailureContained ==
    /\ (call.op = "get_database_stats" /\ call.fault # "none") => call.result.raised
    /\ call.op = "get_database_statistics" =>
          /\ ~call.result.raised
          /\ (call.fault # "none" \/ call.result.inner.raised) =>
                /\ call.result.response.total_knowledge_items = 0
                /\ call.result.response.unique_tags = 0
                /\ call.result.response.categories = <<>>
                /\ call.result.response.most_common_tags = <<>>

\* the service answered empty statistics although the store holds records
C14_Witness ==
    /\ call.op = "get_database_statistics"
    /\ call.fault = "load"
    /\ store # <<>>
    /\ ~call.result.raised
    /\ call.result.response.total_knowledge_items = 0
    /\ call.result.response.categories = <<>>

\* C15: for every request body TextInput accepts, when the handlers
\* /api/recommendations and /api/process-full obtain recommendations from
\* LLMUpdater, LLMUpdater has sent the chat-completion request first.
C15_AcceptedTypeReachesLLM ==
    (call.op = "get_recommendations" /\ call.result.accepted
     /\ call.result.path # "none") =>
        \E i \in DOMAIN call.result.external : call.result.external[i].svc = "llm"

(***************************************************************************)
(* Claims about the file store, checked under SpecFiles.                   *)
(***************************************************************************)
\* C29 (as claimed): category is a unique key of the file store. For distinct
\* names c1 and c2, also names that differ only by a space, a slash or an
\* underscore, adding an item of c2 and deleting c2 leave the record of c1 as
\* it was, and get_knowledge_by_category(c1) returns None or an item whose
\* category is c1.
C29_CategoryIsUniqueKey ==
    /\ (call.op = "add_knowledge_to_database") =>
          \A c1 \in FileCategories \ {call.knowledge_item.category} :
             file_get_knowledge_by_category(files, c1)
                = file_get_knowledge_by_category(call.before, c1)
    /\ (call.op = "delete_knowledge_from_database") =>
          \A c1 \in FileCategories \ {call.category} :
             file_get_knowledge_by_category(files, c1)
                = file_get_knowledge_by_category(call.before, c1)
    /\ (call.op = "file_get_knowledge_by_category") =>
          (call.result = None \/ call.result.category = call.category)

(***************************************************************************)
(* Claims about the application of src/main.py, checked under SpecMain.    *)
(***************************************************************************)
\* C30 (as claimed): an item persisted through /api/apply-recommendation is
\* among the items a later /api/similarity request scans: after a successful
\* apply of category c, SSC goes through an item of category c.
C30_AppliedItemIsScanned ==
    (call.op = "check_similarity" /\ call.result.status = 200) =>
        \A c \in DOMAIN lastAdd :
           \E i \in DOMAIN call.result.scanned : call.result.scanned[i].category = c
====
